---- MODULE Spec2Model ----
(***************************************************************************)
(* mail-archive: the sync daemon (scripts/daemon.py), its trigger API      *)
(* (scripts/sync_api.py) and the protocol adapters (scripts/sync_*.py).    *)
(*                                                                         *)
(* Spec        the daemon: the scheduler in the main thread, the HTTP      *)
(*             request threads, the _run_sync worker threads and the       *)
(*             status lock.  An adapter invocation is an interval between  *)
(*             its start and the step in which it returns or raises.       *)
(* ApiFairSpec the trigger API alone (no scheduler), with the fairness the  *)
(*             thread scheduler and the returning adapters give.           *)
(* AdapterSpec one account's adapter (sync_imap_account, sync_pop3_account *)
(*             or sync_gmail_api_account) run again and again against a    *)
(*             remote mailbox that may gain messages, statement by         *)
(*             statement, with every network call able to raise.           *)
(* RestartSpec the same adapter run again and again against a mailbox that *)
(*             stays as it is; a run may also end with the process.        *)
(* ConcurrentSpec two invocations of the adapter for the same account at   *)
(*             the same time: the scheduler's and a _run_sync thread's.    *)
(* StateFileSpec the functions that save and load a .sync_state file,      *)
(*             taken as text, applied to bounded identifier sets.          *)
(***************************************************************************)
EXTENDS Integers, Sequences, FiniteSets, TLC

\* ---------------------------------------------------------------- bounds
\* HTTP request threads alive at the same time (ThreadingHTTPServer).
NReq == 2
\* _run_sync threads alive at the same time.
NWrk == 2
\* Largest new-message count an adapter invocation returns.
MaxCount == 1
\* Values time.time() takes.
MaxTime == 1
\* Message identifiers and raw contents are 1..MaxId.
MaxId == 4
\* Messages a remote folder holds at most.
MaxMsgs == 3
\* The batch after which the adapters save the state: 100 messages in the
\* code (sync_imap BATCH, sync_gmail_api total_new % 100), scaled to the
\* mailbox bound so that a mailbox holds more than one batch.
SaveEvery == 2
\* State files taken as text: the largest UID, the length of a hash or
\* message id, the largest identifier set saved.
MaxUid == 11
HashLen == 2
MaxStateIds == 3

\* ---------------------------------------------------------- configuration
\* load_all_configs: sorted(config_dir.glob("*.yml")), the order of the
\* accounts dict and of the scheduler's for loop.
AccountOrder == <<"acme", "beta">>

SeqSet(s) == {s[i] : i \in 1..Len(s)}

Accounts == SeqSet(AccountOrder)

AccountType == [a \in Accounts |-> IF a = "acme" THEN "IMAP" ELSE "POP3"]

\* account_name of a POST /sync body: absent (None), empty, known, unknown.
None == "<None>"

RequestNames == {None, "", "ghost"} \cup Accounts

\* Python truthiness of account_name in `if account_name:`.
Truthy(name) == name # None /\ name # ""

\* ------------------------------------------------------------- variables
VARIABLES
    status,              \* _SyncState._status
    lock,                \* _SyncState._lock: its holder, or Free
    rpc,                 \* request threads: the statement each is at
    rname,               \* trigger_sync: the account named, None for all
    ri,                  \* index of the for loop the thread is in
    rresp,               \* the (http_status, body) returned
    rsnap,               \* get_accounts: result so far
    wpc, wtargets, wi,   \* _run_sync threads: position, targets, loop index
    wres,                \* what sync_fn(cfg) returned or raised
    main_pc,             \* daemon.main: initial, loop, pending, stopped, crashed
    sched_due,           \* the jobs of the pass, the head's sync_account running
    shutdown_requested,  \* daemon.shutdown_requested
    committed,           \* history: status at the last release of the lock
    owed,                \* history: per account, flags set minus flags cleared
    rhist,               \* history: per request, what trigger_sync read and did
    \* one account's adapter, run after run (AdapterSpec)
    ad_type,             \* cfg["type"]
    ad_folders,          \* cfg["folders"] (IMAP) or cfg["labels"] (Gmail)
    remote,              \* the remote mailbox: per folder or label, its messages
    files,               \* per local folder, the names of the .eml files in it
    mtime,               \* per local folder, the time set on each file
    sfile,               \* per local folder, its .sync_state
    old_state,           \* the legacy account_dir/.sync_state
    ad_pc,               \* the statement the adapter is at
    ad_fi,               \* index of the folder or label loop
    ad_synced,           \* synced_uids / synced_hashes / synced_ids
    ad_new,              \* new_ids still to fetch
    ad_i, ad_num,        \* POP3: index of the retr loop, num_messages
    ad_total,            \* total_new
    ad_result,           \* what the invocation returned or raised
    ad_parked,           \* the locals of the other thread's invocation, while this one runs
    ad_writes,           \* history: files written by the run
    ad_rewritten,        \* history: per local folder, the files written more than once
    ad_state0,           \* history: sfile when the run began
    ad_pre_clean,        \* history: ad_clean when the run began
    ad_clean,            \* history: the last run returned and the remote is as it saw it
    ad_changed,          \* history: the remote changed since the run began
    \* a state file taken as text (StateFileSpec)
    st_kind,             \* whose functions: "uids" (sync_imap) or "hashes" (sync_pop3)
    st_ids,              \* the identifier set to save
    st_file,             \* the state file: whether it exists, and its text
    st_loaded,           \* what the last load returned
    st_pc                \* init, loaded, saved, reloaded

orchVars == <<status, lock, rpc, rname, ri, rresp, rsnap, rhist,
              wpc, wtargets, wi, wres, main_pc, sched_due,
              shutdown_requested, committed, owed>>

stVars == <<st_kind, st_ids, st_file, st_loaded, st_pc>>
adCfg == <<ad_type, ad_folders, stVars>>
adFs == <<files, mtime, sfile, old_state>>
adRun == <<ad_pc, ad_fi, ad_synced, ad_new, ad_i, ad_num, ad_total, ad_result>>
adHist == <<ad_writes, ad_rewritten, ad_state0, ad_pre_clean, ad_clean, ad_changed>>
adVars == <<adCfg, remote, adFs, adRun, ad_parked, adHist>>

vars == <<orchVars, adVars>>

reqVars == <<rpc, rname, ri, rresp, rsnap, rhist>>
wrkVars == <<wpc, wtargets, wi, wres>>
mainVars == <<main_pc, sched_due, shutdown_requested>>

Req == 1..NReq
Wrk == 1..NWrk
Free == <<"free", 0>>
ReqTid(r) == <<"req", r>>
WrkTid(w) == <<"wrk", w>>

\* ------------------------------------------------------- adapter outcomes
Ok(n) == [ok |-> TRUE, count |-> n, err |-> None]
Raise(e) == [ok |-> FALSE, count |-> 0, err |-> e]
NoResult == [ok |-> FALSE, count |-> 0, err |-> None]

\* cfg.get("folders", ["INBOX"]) of the IMAP account.
ImapFolders == <<"INBOX">>

\* What run_sync(cfg) does for its caller.  sync_imap_account raises
\* NameError at its first folder (imap_folder_to_dir is not defined) and
\* returns 0 only with no folder to visit; sync_pop3_account returns its
\* count or raises the connection's error.
RunSyncOutcomes(a) ==
    IF AccountType[a] = "IMAP"
    THEN IF Len(ImapFolders) = 0 THEN {Ok(0)} ELSE {Raise("NameError")}
    ELSE {Ok(n) : n \in 0..MaxCount} \cup {Raise("error_proto")}

\* Variant: sync_account without its except clause: a failure reaches the caller.
SyncAccountRaises_mut(outcome) == ~outcome.ok
\* sync_account: try: run_sync(cfg) except Exception: logger.exception(...).
\* What reaches the scheduler: never an exception.
SyncAccountRaises(outcome) == FALSE

\* ------------------------------------------------------------------ Init
\* "last_sync": None
NoTime == 0

InitialStatus ==
    [syncing |-> FALSE, last_sync |-> NoTime, last_error |-> None, new_messages |-> 0]

NoResp == [code |-> 0, accounts |-> <<>>]
NoSnap == <<>>

\* A request that has read no flag, written no status and started no thread.
NoHist == [flags |-> <<>>, wrote |-> FALSE, started |-> 0]

OrchInit ==
    /\ status = [a \in Accounts |-> InitialStatus]
    /\ committed = [a \in Accounts |-> InitialStatus]
    /\ owed = [a \in Accounts |-> 0]
    /\ lock = Free
    /\ rpc = [r \in Req |-> "idle"]
    /\ rname = [r \in Req |-> None]
    /\ ri = [r \in Req |-> 0]
    /\ rresp = [r \in Req |-> NoResp]
    /\ rsnap = [r \in Req |-> NoSnap]
    /\ rhist = [r \in Req |-> NoHist]
    /\ wpc = [w \in Wrk |-> "free"]
    /\ wtargets = [w \in Wrk |-> <<>>]
    /\ wi = [w \in Wrk |-> 0]
    /\ wres = [w \in Wrk |-> NoResult]
    /\ main_pc = "initial"
    /\ sched_due = AccountOrder
    /\ shutdown_requested = FALSE

\* A .sync_state file: whether it exists and its lines.
NoFile == [exists |-> FALSE, lines |-> <<>>]

RemoteFolders == {"INBOX", "SENT"}
Dirs == {"inbox", "sent"}

\* The locals of a thread that has called no adapter yet.
NoRun == [pc |-> "idle", fi |-> 0, synced |-> {}, new |-> <<>>, i |-> 0,
          num |-> 0, total |-> 0, result |-> NoResult]

\* The local variables of an adapter that is not running.
AdRunIdle(pc, result) ==
    /\ ad_pc = pc
    /\ ad_fi = 0
    /\ ad_synced = {}
    /\ ad_new = <<>>
    /\ ad_i = 0
    /\ ad_num = 0
    /\ ad_total = 0
    /\ ad_result = result

\* An empty archive and no invocation of the adapter yet.
AdFresh ==
    /\ files = [d \in Dirs |-> {}]
    /\ mtime = [d \in Dirs |-> {}]
    /\ sfile = [d \in Dirs |-> NoFile]
    /\ AdRunIdle("idle", NoResult)
    /\ ad_parked = NoRun
    /\ ad_writes = 0
    /\ ad_rewritten = [d \in Dirs |-> {}]
    /\ ad_state0 = sfile
    /\ ad_pre_clean = FALSE
    /\ ad_clean = FALSE
    /\ ad_changed = FALSE

\* An empty archive and an empty mailbox.
AdEmpty ==
    /\ remote = [f \in RemoteFolders |-> <<>>]
    /\ AdFresh

\* No state file taken as text.
NoText == [exists |-> FALSE, text |-> <<>>]
StIdle ==
    /\ st_kind = "uids"
    /\ st_ids = {}
    /\ st_file = NoText
    /\ st_loaded = {}
    /\ st_pc = "idle"

Init ==
    /\ OrchInit
    /\ AdEmpty
    /\ StIdle
    /\ ad_type = "POP3"
    /\ ad_folders = <<>>
    /\ old_state = NoFile

\* The process runs until main returns (or dies): the API server and the
\* _run_sync threads are daemon threads.
Alive == main_pc \notin {"stopped", "crashed"}

\* `with self._lock:` leaving its block.
Release(t) == IF lock = t THEN Free ELSE lock

\* ------------------------------------------------------ daemon.main
\* The account whose sync_account(cfg) the main thread is executing: the
\* head of the jobs of the pass it is in.
sched_run == IF main_pc \in {"initial", "pending"} THEN Head(sched_due) ELSE None

\* Variant: a main that goes to its loop after the initial sync of the first
\* account, the jobs of the others scheduled but not run.
SchedFinish_first ==
    /\ main_pc \in {"initial", "pending"}
    /\ \E outcome \in RunSyncOutcomes(sched_run) :
          /\ sched_due' = Tail(sched_due)
          /\ main_pc' = IF Len(sched_due) = 1 \/ main_pc = "initial" THEN "loop" ELSE main_pc
    /\ UNCHANGED <<status, lock, reqVars, wrkVars, shutdown_requested, committed, owed, adVars>>

\* run_sync(cfg) returns or raises inside sync_account; the for loop of main
\* (or of run_pending) calls sync_account for the next job, or ends.
SchedFinish ==
    /\ main_pc \in {"initial", "pending"}
    /\ \E outcome \in RunSyncOutcomes(sched_run) :
          IF SyncAccountRaises(outcome)
          THEN /\ main_pc' = "crashed"
               /\ sched_due' = sched_due
          ELSE /\ sched_due' = Tail(sched_due)
               /\ main_pc' = IF Len(sched_due) = 1 THEN "loop" ELSE main_pc
    /\ UNCHANGED <<status, lock, reqVars, wrkVars, shutdown_requested, committed, owed, adVars>>

\* The accounts of `due` in the order their jobs were scheduled.
RECURSIVE DueSeq(_, _)
DueSeq(order, due) ==
    IF order = <<>> THEN <<>>
    ELSE IF Head(order) \in due
         THEN <<Head(order)>> \o DueSeq(Tail(order), due)
         ELSE DueSeq(Tail(order), due)

\* Variant: a tick that waits until no _run_sync thread is inside sync_fn.
MainLoop_waits ==
    /\ main_pc = "loop"
    /\ \A w \in Wrk : wpc[w] # "run"
    /\ IF shutdown_requested
       THEN /\ main_pc' = "stopped"
            /\ sched_due' = sched_due
       ELSE \E due \in (SUBSET Accounts) \ {{}} :
               /\ sched_due' = DueSeq(AccountOrder, due)
               /\ main_pc' = "pending"
    /\ UNCHANGED <<status, lock, reqVars, wrkVars, shutdown_requested, committed, owed, adVars>>

\* while not shutdown_requested: schedule.run_pending(); time.sleep(1)
\* run_pending runs the jobs that are due, one after the other.
MainLoop ==
    /\ main_pc = "loop"
    /\ IF shutdown_requested
       THEN /\ main_pc' = "stopped"
            /\ sched_due' = sched_due
       ELSE \E due \in (SUBSET Accounts) \ {{}} :
               /\ sched_due' = DueSeq(AccountOrder, due)
               /\ main_pc' = "pending"
    /\ UNCHANGED <<status, lock, reqVars, wrkVars, shutdown_requested, committed, owed, adVars>>

\* _handle_signal
HandleSignal ==
    /\ Alive
    /\ ~shutdown_requested
    /\ shutdown_requested' = TRUE
    /\ UNCHANGED <<status, lock, reqVars, wrkVars, main_pc, sched_due, committed, owed, adVars>>

\* ------------------------------------------------ sync_api: trigger_sync
\* targets = [account_name] if account_name else list(self.accounts.keys())
Targets(name) == IF Truthy(name) THEN <<name>> ELSE AccountOrder

\* Variant: trigger_sync without the outer `if account_name`.
UnknownAccount_mut(name) == name \notin Accounts
\* if account_name: if account_name not in self.accounts: return 404, ...
UnknownAccount(name) == Truthy(name) /\ name \notin Accounts

\* Variant: trigger_sync that finds no target syncing.
Already_none(targets) == <<>>
\* Variant: trigger_sync that rejects only when every target is syncing.
Already_all(targets) ==
    IF \A i \in 1..Len(targets) : status[targets[i]].syncing THEN targets ELSE <<>>
\* already = [n for n in targets if self._status[n]["syncing"]]
Already(targets) == SelectSeq(targets, LAMBDA n : status[n].syncing)

\* A new connection is served by a new thread: the first unused slot.
FirstIdle(r) == rpc[r] = "idle" /\ \A q \in Req : q < r => rpc[q] # "idle"

\* do_POST /sync -> state.trigger_sync(account), up to the lock.  rname keeps
\* the name that selects the targets: None when account_name is falsy.
ReqPost(r, name) ==
    /\ Alive
    /\ FirstIdle(r)
    /\ IF UnknownAccount(name)
       THEN /\ rresp' = [rresp EXCEPT ![r] = [code |-> 404, accounts |-> <<>>]]
            /\ rpc' = [rpc EXCEPT ![r] = "done"]
            /\ rname' = [rname EXCEPT ![r] = name]
       ELSE /\ rname' = [rname EXCEPT ![r] = IF Truthy(name) THEN name ELSE None]
            /\ rpc' = [rpc EXCEPT ![r] = "lock"]
            /\ rresp' = rresp
    /\ UNCHANGED <<status, lock, ri, rsnap, rhist, wrkVars, mainVars, committed, owed, adVars>>

\* Variant: trigger_sync without the lock around its check and its loop.
TriggerAcquire_nolock(r) ==
    /\ Alive
    /\ rpc[r] = "lock"
    /\ rpc' = [rpc EXCEPT ![r] = "check"]
    /\ UNCHANGED <<status, lock, rname, ri, rresp, rsnap, rhist, wrkVars, mainVars, committed, owed, adVars>>
\* with self._lock:   (trigger_sync)
TriggerAcquire(r) ==
    /\ Alive
    /\ rpc[r] = "lock"
    /\ lock = Free
    /\ lock' = ReqTid(r)
    /\ rpc' = [rpc EXCEPT ![r] = "check"]
    /\ UNCHANGED <<status, rname, ri, rresp, rsnap, rhist, wrkVars, mainVars, committed, owed, adVars>>

\* already = [...]; if already: return 409, {...}: the return value is
\* built inside the with block.
TriggerCheck(r) ==
    /\ Alive
    /\ rpc[r] = "check"
    /\ IF Already(Targets(rname[r])) # <<>>
       THEN /\ rresp' = [rresp EXCEPT
                  ![r] = [code |-> 409, accounts |-> Already(Targets(rname[r]))]]
            /\ rpc' = [rpc EXCEPT ![r] = "reject"]
            /\ ri' = ri
       ELSE /\ rpc' = [rpc EXCEPT ![r] = "set_syncing"]
            /\ ri' = [ri EXCEPT ![r] = 1]
            /\ rresp' = rresp
    /\ rhist' = [rhist EXCEPT ![r].flags =
                     [n \in SeqSet(Targets(rname[r])) |-> status[n].syncing]]
    /\ UNCHANGED <<status, lock, committed, rname, rsnap, wrkVars, mainVars, owed, adVars>>

\* Variant: a trigger_sync that sets the flags of the targets it found Idle
\* before it returns 409.
TriggerReject_marks(r) ==
    /\ Alive
    /\ rpc[r] = "reject"
    /\ rpc' = [rpc EXCEPT ![r] = "done"]
    /\ status' = [a \in Accounts |->
                     IF a \in SeqSet(Targets(rname[r])) /\ ~status[a].syncing
                     THEN [status[a] EXCEPT !.syncing = TRUE]
                     ELSE status[a]]
    /\ lock' = Release(ReqTid(r))
    /\ committed' = IF lock = ReqTid(r) THEN status' ELSE committed
    /\ UNCHANGED <<rname, ri, rresp, rsnap, rhist, wrkVars, mainVars, owed, adVars>>
\* return 409 leaves the with block: the lock is released.
TriggerReject(r) ==
    /\ Alive
    /\ rpc[r] = "reject"
    /\ rpc' = [rpc EXCEPT ![r] = "done"]
    /\ lock' = Release(ReqTid(r))
    /\ committed' = IF lock = ReqTid(r) THEN status ELSE committed
    /\ UNCHANGED <<status, rname, ri, rresp, rsnap, rhist, wrkVars, mainVars, owed, adVars>>

\* self._status[n]["syncing"] = True
TriggerSetSyncing(r) ==
    /\ Alive
    /\ rpc[r] = "set_syncing"
    /\ status' = [status EXCEPT ![Targets(rname[r])[ri[r]]].syncing = TRUE]
    /\ owed' = [owed EXCEPT ![Targets(rname[r])[ri[r]]] = @ + 1]
    /\ rpc' = [rpc EXCEPT ![r] = "set_error"]
    /\ rhist' = [rhist EXCEPT ![r].wrote = TRUE]
    /\ UNCHANGED <<lock, rname, ri, rresp, rsnap, wrkVars, mainVars, committed, adVars>>

\* Variant: a trigger_sync that sets the flag of a target and leaves its
\* last error as it was.
TriggerSetError_keeps(r) ==
    /\ Alive
    /\ rpc[r] = "set_error"
    /\ status' = status
    /\ IF ri[r] < Len(Targets(rname[r]))
       THEN /\ ri' = [ri EXCEPT ![r] = ri[r] + 1]
            /\ rpc' = [rpc EXCEPT ![r] = "set_syncing"]
            /\ UNCHANGED <<lock, committed>>
       ELSE /\ ri' = [ri EXCEPT ![r] = 0]
            /\ rpc' = [rpc EXCEPT ![r] = "spawn"]
            /\ lock' = Release(ReqTid(r))
            /\ committed' = IF lock = ReqTid(r) THEN status' ELSE committed
    /\ UNCHANGED <<rname, rresp, rsnap, rhist, wrkVars, mainVars, owed, adVars>>
\* self._status[n]["last_error"] = None; after the last target the with
\* block ends.
TriggerSetError(r) ==
    /\ Alive
    /\ rpc[r] = "set_error"
    /\ status' = [status EXCEPT ![Targets(rname[r])[ri[r]]].last_error = None]
    /\ IF ri[r] < Len(Targets(rname[r]))
       THEN /\ ri' = [ri EXCEPT ![r] = ri[r] + 1]
            /\ rpc' = [rpc EXCEPT ![r] = "set_syncing"]
            /\ UNCHANGED <<lock, committed>>
       ELSE /\ ri' = [ri EXCEPT ![r] = 0]
            /\ rpc' = [rpc EXCEPT ![r] = "spawn"]
            /\ lock' = Release(ReqTid(r))
            /\ committed' = IF lock = ReqTid(r) THEN status' ELSE committed
    /\ UNCHANGED <<rname, rresp, rsnap, rhist, wrkVars, mainVars, owed, adVars>>

\* The slot of a new thread: the first unused one.
FirstFree(w) == wpc[w] = "free" /\ \A v \in Wrk : v < w => wpc[v] # "free"

\* Variant: a _run_sync that takes the lock around its whole for loop, so
\* that sync_fn(cfg) is called inside the with block.
TriggerSpawn_locked(r) ==
    /\ Alive
    /\ rpc[r] = "spawn"
    /\ lock = Free
    /\ \E w \in Wrk :
          /\ FirstFree(w)
          /\ wpc' = [wpc EXCEPT ![w] = "run"]
          /\ wtargets' = [wtargets EXCEPT ![w] = Targets(rname[r])]
          /\ wi' = [wi EXCEPT ![w] = 1]
          /\ lock' = WrkTid(w)
    /\ rresp' = [rresp EXCEPT ![r] = [code |-> 202, accounts |-> Targets(rname[r])]]
    /\ rpc' = [rpc EXCEPT ![r] = "done"]
    /\ rhist' = [rhist EXCEPT ![r].started = @ + 1]
    /\ UNCHANGED <<status, rname, ri, rsnap, wres, mainVars, committed, owed, adVars>>
\* threading.Thread(target=self._run_sync, args=(targets,)).start()
\* return 202, {"status": "started", "accounts": targets}
\* The thread enters its for loop and calls sync_fn(cfg) for targets[0].
TriggerSpawn(r) ==
    /\ Alive
    /\ rpc[r] = "spawn"
    /\ \E w \in Wrk :
          /\ FirstFree(w)
          /\ wpc' = [wpc EXCEPT ![w] = "run"]
          /\ wtargets' = [wtargets EXCEPT ![w] = Targets(rname[r])]
          /\ wi' = [wi EXCEPT ![w] = 1]
    /\ rresp' = [rresp EXCEPT ![r] = [code |-> 202, accounts |-> Targets(rname[r])]]
    /\ rpc' = [rpc EXCEPT ![r] = "done"]
    /\ rhist' = [rhist EXCEPT ![r].started = @ + 1]
    /\ UNCHANGED <<status, lock, rname, ri, rsnap, wres, mainVars, committed, owed, adVars>>

\* ------------------------------------------------ sync_api: get_accounts
\* do_GET /accounts -> state.get_accounts(), up to the lock.
ReqGet(r) ==
    /\ Alive
    /\ FirstIdle(r)
    /\ rpc' = [rpc EXCEPT ![r] = "qlock"]
    /\ UNCHANGED <<status, lock, rname, ri, rresp, rsnap, rhist, wrkVars, mainVars, committed, owed, adVars>>

\* Variant: get_accounts without the lock.
QueryAcquire_nolock(r) ==
    /\ Alive
    /\ rpc[r] = "qlock"
    /\ rpc' = [rpc EXCEPT ![r] = "qcopy"]
    /\ ri' = [ri EXCEPT ![r] = 1]
    /\ UNCHANGED <<status, lock, rname, rresp, rsnap, rhist, wrkVars, mainVars, committed, owed, adVars>>
\* with self._lock:   (get_accounts)
QueryAcquire(r) ==
    /\ Alive
    /\ rpc[r] = "qlock"
    /\ lock = Free
    /\ lock' = ReqTid(r)
    /\ rpc' = [rpc EXCEPT ![r] = "qcopy"]
    /\ ri' = [ri EXCEPT ![r] = 1]
    /\ UNCHANGED <<status, rname, rresp, rsnap, rhist, wrkVars, mainVars, committed, owed, adVars>>

\* s = self._status[name].copy(); ...; result.append(s)
QueryCopy(r) ==
    /\ Alive
    /\ rpc[r] = "qcopy"
    /\ rsnap' = [rsnap EXCEPT ![r] = Append(@,
                      [name |-> AccountOrder[ri[r]],
                       type |-> AccountType[AccountOrder[ri[r]]],
                       s |-> status[AccountOrder[ri[r]]]])]
    /\ IF ri[r] < Len(AccountOrder)
       THEN /\ ri' = [ri EXCEPT ![r] = ri[r] + 1]
            /\ rpc' = rpc
       ELSE /\ ri' = [ri EXCEPT ![r] = 0]
            /\ rpc' = [rpc EXCEPT ![r] = "qreturn"]
    /\ UNCHANGED <<status, lock, rname, rresp, rhist, wrkVars, mainVars, committed, owed, adVars>>

\* return result: the with block ends, do_GET sends the list and the request
\* thread ends.
QueryReturn(r) ==
    /\ Alive
    /\ rpc[r] = "qreturn"
    /\ lock' = Release(ReqTid(r))
    /\ committed' = IF lock = ReqTid(r) THEN status ELSE committed
    /\ rpc' = [rpc EXCEPT ![r] = "idle"]
    /\ rsnap' = [rsnap EXCEPT ![r] = NoSnap]
    /\ UNCHANGED <<status, rname, ri, rresp, rhist, wrkVars, mainVars, owed, adVars>>

\* do_POST: self._json(status, resp); the request thread ends.
ReqDone(r) ==
    /\ Alive
    /\ rpc[r] = "done"
    /\ rpc' = [rpc EXCEPT ![r] = "idle"]
    /\ rname' = [rname EXCEPT ![r] = None]
    /\ rresp' = [rresp EXCEPT ![r] = NoResp]
    /\ rhist' = [rhist EXCEPT ![r] = NoHist]
    /\ UNCHANGED <<status, lock, ri, rsnap, wrkVars, mainVars, committed, owed, adVars>>

\* --------------------------------------------------- sync_api: _run_sync
Target(w) == wtargets[w][wi[w]]

\* count = self.sync_fn(cfg) returns, or raises into `except Exception`.
WorkerAdapterDone(w) ==
    /\ Alive
    /\ wpc[w] = "run"
    /\ \E outcome \in RunSyncOutcomes(Target(w)) :
          wres' = [wres EXCEPT ![w] = outcome]
    /\ wpc' = [wpc EXCEPT ![w] = "lock"]
    /\ UNCHANGED <<status, lock, reqVars, wtargets, wi, mainVars, committed, owed, adVars>>

\* with self._lock:   (either branch of _run_sync)
WorkerAcquire(w) ==
    /\ Alive
    /\ wpc[w] = "lock"
    /\ lock = Free
    /\ lock' = WrkTid(w)
    /\ wpc' = [wpc EXCEPT ![w] = IF wres[w].ok THEN "ok_syncing" ELSE "err_syncing"]
    /\ UNCHANGED <<status, reqVars, wtargets, wi, wres, mainVars, committed, owed, adVars>>

\* self._status[name]["syncing"] = False   (success)
WorkerOkSyncing(w) ==
    /\ Alive
    /\ wpc[w] = "ok_syncing"
    /\ status' = [status EXCEPT ![Target(w)].syncing = FALSE]
    /\ owed' = [owed EXCEPT ![Target(w)] = @ - 1]
    /\ wpc' = [wpc EXCEPT ![w] = "ok_last_sync"]
    /\ UNCHANGED <<lock, reqVars, wtargets, wi, wres, mainVars, committed, adVars>>

\* self._status[name]["last_sync"] = time.time()
WorkerOkLastSync(w) ==
    /\ Alive
    /\ wpc[w] = "ok_last_sync"
    /\ \E t \in 1..MaxTime :
          status' = [status EXCEPT ![Target(w)].last_sync = t]
    /\ wpc' = [wpc EXCEPT ![w] = "ok_error"]
    /\ UNCHANGED <<lock, reqVars, wtargets, wi, wres, mainVars, committed, owed, adVars>>

\* self._status[name]["last_error"] = None
WorkerOkError(w) ==
    /\ Alive
    /\ wpc[w] = "ok_error"
    /\ status' = [status EXCEPT ![Target(w)].last_error = None]
    /\ wpc' = [wpc EXCEPT ![w] = "ok_count"]
    /\ UNCHANGED <<lock, reqVars, wtargets, wi, wres, mainVars, committed, owed, adVars>>

\* The for loop of _run_sync after one target: the next target's sync_fn
\* call, or the end of the thread.
WorkerNext(w) ==
    /\ IF wi[w] < Len(wtargets[w])
       THEN /\ wi' = [wi EXCEPT ![w] = wi[w] + 1]
            /\ wpc' = [wpc EXCEPT ![w] = "run"]
            /\ wtargets' = wtargets
       ELSE /\ wi' = [wi EXCEPT ![w] = 0]
            /\ wpc' = [wpc EXCEPT ![w] = "free"]
            /\ wtargets' = [wtargets EXCEPT ![w] = <<>>]
    /\ wres' = [wres EXCEPT ![w] = NoResult]

\* Variant: _run_sync that drops the count.
CountOf_zero(outcome) == 0
\* count if isinstance(count, int) else 0
CountOf(outcome) == outcome.count

\* self._status[name]["new_messages"] = count if isinstance(count, int) else 0
WorkerOkCount(w) ==
    /\ Alive
    /\ wpc[w] = "ok_count"
    /\ status' = [status EXCEPT ![Target(w)].new_messages = CountOf(wres[w])]
    /\ wpc' = [wpc EXCEPT ![w] = "ok_done"]
    /\ UNCHANGED <<lock, reqVars, wtargets, wi, wres, mainVars, committed, owed, adVars>>

\* Variant: an except branch that leaves the flag set.
WorkerErrSyncing_skip(w) ==
    /\ Alive
    /\ wpc[w] = "err_syncing"
    /\ wpc' = [wpc EXCEPT ![w] = "err_error"]
    /\ UNCHANGED <<status, lock, reqVars, wtargets, wi, wres, mainVars, committed, owed, adVars>>
\* Variant: an except branch that stamps last_sync as the success branch does.
WorkerErrSyncing_stamp(w) ==
    /\ Alive
    /\ wpc[w] = "err_syncing"
    /\ \E t \in 1..MaxTime :
          status' = [status EXCEPT ![Target(w)].syncing = FALSE,
                                   ![Target(w)].last_sync = t]
    /\ owed' = [owed EXCEPT ![Target(w)] = @ - 1]
    /\ wpc' = [wpc EXCEPT ![w] = "err_error"]
    /\ UNCHANGED <<lock, reqVars, wtargets, wi, wres, mainVars, committed, adVars>>
\* self._status[name]["syncing"] = False   (except Exception)
WorkerErrSyncing(w) ==
    /\ Alive
    /\ wpc[w] = "err_syncing"
    /\ status' = [status EXCEPT ![Target(w)].syncing = FALSE]
    /\ owed' = [owed EXCEPT ![Target(w)] = @ - 1]
    /\ wpc' = [wpc EXCEPT ![w] = "err_error"]
    /\ UNCHANGED <<lock, reqVars, wtargets, wi, wres, mainVars, committed, adVars>>

\* str(exc)
ErrorText(outcome) == outcome.err

\* Variant: an except branch that also resets the count.
WorkerErrError_reset(w) ==
    /\ Alive
    /\ wpc[w] = "err_error"
    /\ status' = [status EXCEPT ![Target(w)].last_error = ErrorText(wres[w]),
                                ![Target(w)].new_messages = 0]
    /\ wpc' = [wpc EXCEPT ![w] = "err_done"]
    /\ UNCHANGED <<lock, reqVars, wtargets, wi, wres, mainVars, committed, owed, adVars>>
\* self._status[name]["last_error"] = str(exc)
WorkerErrError(w) ==
    /\ Alive
    /\ wpc[w] = "err_error"
    /\ status' = [status EXCEPT ![Target(w)].last_error = ErrorText(wres[w])]
    /\ wpc' = [wpc EXCEPT ![w] = "err_done"]
    /\ UNCHANGED <<lock, reqVars, wtargets, wi, wres, mainVars, committed, owed, adVars>>

\* Variant: a _run_sync whose for loop goes on to the next target without
\* waiting for sync_fn(cfg) to return.
WorkerRelease_early(w) ==
    /\ Alive
    /\ wpc[w] \in {"run", "ok_done", "err_done"}
    /\ lock' = Release(WrkTid(w))
    /\ committed' = IF lock = WrkTid(w) THEN status ELSE committed
    /\ WorkerNext(w)
    /\ UNCHANGED <<status, reqVars, mainVars, owed, adVars>>

\* The with block of either branch ends: the lock is released and the for
\* loop goes on.
WorkerRelease(w) ==
    /\ Alive
    /\ wpc[w] \in {"ok_done", "err_done"}
    /\ lock' = Release(WrkTid(w))
    /\ committed' = IF lock = WrkTid(w) THEN status ELSE committed
    /\ WorkerNext(w)
    /\ UNCHANGED <<status, reqVars, mainVars, owed, adVars>>


\* ============================================================== adapters
AdapterTypes == {"IMAP", "POP3", "GMAIL_API"}

Ids == 1..MaxId

\* hashlib.sha256(raw).hexdigest()[:16].  Digests of distinct contents of
\* the bounded domain are distinct; they are numbered after the identifiers
\* so that their order is the order of the hex strings.
content_checksum(raw) == MaxId + raw

\* Variant: a hash that is the same for every message.
msg_hash_same(raw_msg) == MaxId + 1
\* POP3 has no stable UIDs: the identifier is the same truncated digest.
msg_hash(raw_msg) == MaxId + raw_msg

\* Gmail: the bytes messages.get(id, format="raw") returns for a message.
GmailRaw(mid) == mid

\* The Date header of a message: the message with the last content has one
\* that cannot be parsed, the one before it has none.
DateHeader(raw) ==
    IF raw = MaxId THEN "bad" ELSE IF raw = MaxId - 1 THEN "missing" ELSE "valid"

\* email.utils.parsedate_to_datetime raises on a Date header it cannot
\* parse.
DateParses(raw) == DateHeader(raw) # "bad"

\* sync_pop3._parse_date: the time of the Date header, now() without one;
\* no except clause around parsedate_to_datetime.
pop3_parse_date(raw_msg) ==
    IF DateHeader(raw_msg) = "missing" THEN "now"
    ELSE IF DateParses(raw_msg) THEN "Date" ELSE "ValueError"

\* eml_utils.parse_date_from_bytes: the time of the Date header; now() when
\* there is none or parsedate_to_datetime raises.
parse_date_from_bytes(raw) == IF DateHeader(raw) = "valid" THEN "Date" ELSE "now"

\* folder_mapping.imap_folder_to_path for the folder names of the model:
\* INBOX -> inbox, any other name -> its slug.
imap_folder_to_path(folder_name) ==
    CASE folder_name = "INBOX" -> "inbox"
      [] folder_name = "SENT" -> "sent"
      [] OTHER -> "gone"

GMAIL_LABEL_MAP(label_id) == IF label_id = "INBOX" THEN "inbox" ELSE "sent"

RECURSIVE Sorted(_)
Sorted(S) ==
    IF S = {} THEN <<>>
    ELSE LET m == CHOOSE x \in S : \A y \in S : x <= y
         IN  <<m>> \o Sorted(S \ {m})

\* state_file.write_text("\n".join(sorted(ids)))
save_synced(ids) == [exists |-> TRUE, lines |-> Sorted(ids)]

\* set() for a missing or blank file, else the set of its non-blank lines.
load_synced(state_file) ==
    IF ~state_file.exists THEN {} ELSE SeqSet(state_file.lines)

\* if not state_file.exists() and old_state.exists():
\*     state_file.write_text(old_state.read_text())
Migrated(state_file) ==
    IF ~state_file.exists /\ old_state.exists
    THEN [exists |-> TRUE, lines |-> old_state.lines]
    ELSE state_file

RECURSIVE SelectSeqNotIn(_, _)
SelectSeqNotIn(seq, S) ==
    IF seq = <<>> THEN <<>>
    ELSE IF Head(seq) \in S THEN SelectSeqNotIn(Tail(seq), S)
         ELSE <<Head(seq)>> \o SelectSeqNotIn(Tail(seq), S)

\* Variant: a delta that ignores the synced identifiers.
NewIds_all(all_msg_ids, synced_ids) == all_msg_ids
\* new_ids = [mid for mid in all_msg_ids if mid not in synced_ids]
NewIds(all_msg_ids, synced_ids) == SelectSeqNotIn(all_msg_ids, synced_ids)

\* Variant: a write that leaves no file behind (the bytes are lost) while
\* the run goes on to record the identifier.
write_bytes_lost(folder_dir, filename, msg_date) ==
    /\ files' = files
    /\ mtime' = mtime
    /\ ad_rewritten' = ad_rewritten
    /\ ad_writes' = ad_writes + 1

\* filepath.write_bytes(raw): no adapter looks whether filepath exists; the
\* file is created, or truncated and written again.  Then
\* set_file_received_time(filepath, msg_date) sets its time.
write_bytes(folder_dir, filename, msg_date) ==
    /\ files' = [files EXCEPT ![folder_dir] = @ \cup {filename}]
    /\ mtime' = [mtime EXCEPT ![folder_dir] =
                    {ft \in @ : ft[1] # filename} \cup {<<filename, msg_date>>}]
    /\ ad_rewritten' = IF filename \in files[folder_dir]
                       THEN [ad_rewritten EXCEPT ![folder_dir] = @ \cup {filename}]
                       ELSE ad_rewritten
    /\ ad_writes' = ad_writes + 1

\* The invocation ends: it returns its count or an exception leaves it.
AdFinish(result) ==
    /\ ad_pc' = "done"
    /\ ad_fi' = 0
    /\ ad_synced' = {}
    /\ ad_new' = <<>>
    /\ ad_i' = 0
    /\ ad_num' = 0
    /\ ad_total' = 0
    /\ ad_result' = result
    /\ ad_clean' = (result.ok /\ ~ad_changed)

\* run_sync(cfg) calls the adapter of cfg["type"].
AdBegin ==
    /\ ad_pc \in {"idle", "done"}
    /\ ad_pc' = CASE ad_type = "IMAP" -> "imap_connect"
                  [] ad_type = "POP3" -> "pop3_start"
                  [] ad_type = "GMAIL_API" -> "gmail_service"
    /\ ad_result' = NoResult
    /\ ad_writes' = 0
    /\ ad_rewritten' = ad_rewritten
    /\ ad_state0' = sfile
    /\ ad_pre_clean' = ad_clean
    /\ ad_changed' = FALSE
    /\ UNCHANGED <<orchVars, adCfg, ad_parked, remote, adFs, ad_clean,
                   ad_fi, ad_synced, ad_new, ad_i, ad_num, ad_total>>

\* The process is stopped while the adapter runs (a kill, a power loss) and
\* the daemon is started again: the locals are lost, the files stay.
Killed == [ok |-> FALSE, count |-> 0, err |-> "SIGKILL"]

AdCrash ==
    /\ ad_pc \notin {"idle", "done"}
    /\ AdFinish(Killed)
    /\ UNCHANGED <<orchVars, adCfg, ad_parked, remote, adFs,
                   ad_writes, ad_rewritten, ad_state0, ad_pre_clean, ad_changed>>

\* The remote mailbox gains a message: any content for POP3, the folder's
\* next UID for IMAP (UIDs are per folder), for Gmail an identifier above those the label lists (the
\* identifiers are opaque: a label's listing is taken in their order).
RemoteAppend(f, m) ==
    /\ Len(remote[f]) < MaxMsgs
    /\ CASE ad_type = "POP3" -> f = "INBOX"
         [] ad_type = "IMAP" -> m = Len(remote[f]) + 1
         [] ad_type = "GMAIL_API" -> \A x \in SeqSet(remote[f]) : x < m
    /\ remote' = [remote EXCEPT ![f] = Append(@, m)]
    /\ ad_changed' = TRUE
    /\ ad_clean' = FALSE
    /\ UNCHANGED <<orchVars, adCfg, ad_parked, adFs, adRun,
                   ad_writes, ad_rewritten, ad_state0, ad_pre_clean>>


\* ---------------------------------------------- sync_pop3: sync_pop3_account
\* Migrate the legacy .sync_state to inbox/, load the synced hashes.
Pop3Start ==
    /\ ad_pc = "pop3_start"
    /\ sfile' = [sfile EXCEPT !["inbox"] = Migrated(@)]
    /\ ad_synced' = load_synced(sfile'["inbox"])
    /\ ad_total' = 0
    /\ ad_pc' = "pop3_connect"
    /\ UNCHANGED <<orchVars, adCfg, ad_parked, remote, files, mtime, old_state, adHist,
                   ad_fi, ad_new, ad_i, ad_num, ad_result>>

\* poplib.POP3_SSL(host, port); user; pass_; num_messages = len(list()[1]).
Pop3Connect ==
    /\ ad_pc = "pop3_connect"
    /\ \E ok \in BOOLEAN :
        IF ok
        THEN /\ ad_num' = Len(remote["INBOX"])
             /\ ad_i' = 1
             /\ ad_pc' = "pop3_retr"
             /\ UNCHANGED <<ad_fi, ad_synced, ad_new, ad_total, ad_result, ad_clean>>
        ELSE AdFinish(Raise("error_proto"))
    /\ UNCHANGED <<orchVars, adCfg, ad_parked, remote, adFs,
                   ad_writes, ad_rewritten, ad_state0, ad_pre_clean, ad_changed>>

\* One turn of for i in range(1, num_messages + 1): retr(i), skip a known
\* hash, else parse the date, write the file and count it.  An exception
\* leaves through finally: server.quit() without saving the state.
Pop3Retr ==
    /\ ad_pc = "pop3_retr"
    /\ ad_i <= ad_num
    /\ \E ok \in BOOLEAN :
        LET raw_msg == remote["INBOX"][ad_i]
            msg_h == msg_hash(raw_msg)
            filename == <<content_checksum(raw_msg), msg_h>>
        IN  IF ~ok
            THEN /\ AdFinish(Raise("error_proto"))
                 /\ UNCHANGED <<files, mtime, ad_writes, ad_rewritten>>
            ELSE IF msg_h \in ad_synced
            THEN /\ ad_i' = ad_i + 1
                 /\ UNCHANGED <<files, mtime, ad_writes, ad_rewritten,
                                ad_pc, ad_fi, ad_synced, ad_new,
                                ad_num, ad_total, ad_result, ad_clean>>
            ELSE IF pop3_parse_date(raw_msg) = "ValueError"
            THEN /\ AdFinish(Raise("ValueError"))
                 /\ UNCHANGED <<files, mtime, ad_writes, ad_rewritten>>
            ELSE /\ write_bytes("inbox", filename, pop3_parse_date(raw_msg))
                 /\ ad_synced' = ad_synced \cup {msg_h}
                 /\ ad_total' = ad_total + 1
                 /\ ad_i' = ad_i + 1
                 /\ UNCHANGED <<ad_pc, ad_fi, ad_new, ad_num, ad_result, ad_clean>>
    /\ UNCHANGED <<orchVars, adCfg, ad_parked, remote, sfile, old_state,
                   ad_state0, ad_pre_clean, ad_changed>>

\* After the loop: _save_synced_hashes, server.quit(), return total_new.
Pop3Save ==
    /\ ad_pc = "pop3_retr"
    /\ ad_i > ad_num
    /\ sfile' = [sfile EXCEPT !["inbox"] = save_synced(ad_synced)]
    /\ AdFinish(Ok(ad_total))
    /\ UNCHANGED <<orchVars, adCfg, ad_parked, remote, files, mtime, old_state,
                   ad_writes, ad_rewritten, ad_state0, ad_pre_clean, ad_changed>>

\* ------------------------------------ sync_gmail_api: sync_gmail_api_account
\* labels = cfg.get("labels", ...); service = _get_gmail_service(...).
GmailService ==
    /\ ad_pc = "gmail_service"
    /\ \E ok \in BOOLEAN :
        IF ok
        THEN /\ ad_total' = 0
             /\ ad_fi' = 1
             /\ ad_pc' = "gmail_label"
             /\ UNCHANGED <<ad_synced, ad_new, ad_i, ad_num, ad_result, ad_clean>>
        ELSE AdFinish(Raise("RefreshError"))
    /\ UNCHANGED <<orchVars, adCfg, ad_parked, remote, adFs,
                   ad_writes, ad_rewritten, ad_state0, ad_pre_clean, ad_changed>>

\* The head of one turn of for label_id in labels: load the state, migrate
\* the legacy state for inbox, list the label page by page, keep the new
\* identifiers; with none the turn ends (continue) without a save.
GmailLabel ==
    /\ ad_pc = "gmail_label"
    /\ ad_fi <= Len(ad_folders)
    /\ LET label_id == ad_folders[ad_fi]
           folder_dir == GMAIL_LABEL_MAP(label_id)
           state_file == IF folder_dir = "inbox" THEN Migrated(sfile[folder_dir])
                         ELSE sfile[folder_dir]
           synced_ids == load_synced(state_file)
           new_ids == NewIds(remote[label_id], synced_ids)
       IN  /\ sfile' = [sfile EXCEPT ![folder_dir] = state_file]
           /\ \E ok \in BOOLEAN :
               IF ~ok
               THEN AdFinish(Raise("HttpError"))
               ELSE IF new_ids = <<>>
               THEN /\ ad_fi' = ad_fi + 1
                    /\ UNCHANGED <<ad_pc, ad_synced, ad_new, ad_i, ad_num,
                                   ad_total, ad_result, ad_clean>>
               ELSE /\ ad_synced' = synced_ids
                    /\ ad_new' = new_ids
                    /\ ad_pc' = "gmail_get"
                    /\ UNCHANGED <<ad_fi, ad_i, ad_num, ad_total, ad_result, ad_clean>>
    /\ UNCHANGED <<orchVars, adCfg, ad_parked, remote, files, mtime, old_state,
                   ad_writes, ad_rewritten, ad_state0, ad_pre_clean, ad_changed>>

\* One turn of for mid in new_ids: get the raw message, write the file,
\* count it, save the state when the count is a multiple of 100.
GmailGet ==
    /\ ad_pc = "gmail_get"
    /\ ad_new # <<>>
    /\ \E ok \in BOOLEAN :
        LET mid == Head(ad_new)
            folder_dir == GMAIL_LABEL_MAP(ad_folders[ad_fi])
            filename == <<content_checksum(GmailRaw(mid)), mid>>
        IN  IF ~ok
            THEN /\ AdFinish(Raise("HttpError"))
                 /\ UNCHANGED <<files, mtime, sfile, ad_writes, ad_rewritten>>
            ELSE /\ write_bytes(folder_dir, filename, "internalDate")
                 /\ ad_synced' = ad_synced \cup {mid}
                 /\ ad_total' = ad_total + 1
                 /\ ad_new' = Tail(ad_new)
                 /\ sfile' = IF ad_total' % SaveEvery = 0
                             THEN [sfile EXCEPT ![folder_dir] = save_synced(ad_synced')]
                             ELSE sfile
                 /\ UNCHANGED <<ad_pc, ad_fi, ad_i, ad_num, ad_result, ad_clean>>
    /\ UNCHANGED <<orchVars, adCfg, ad_parked, remote, old_state,
                   ad_state0, ad_pre_clean, ad_changed>>

\* After the inner loop: _save_synced_ids(state_file, synced_ids).
GmailSave ==
    /\ ad_pc = "gmail_get"
    /\ ad_new = <<>>
    /\ sfile' = [sfile EXCEPT ![GMAIL_LABEL_MAP(ad_folders[ad_fi])] = save_synced(ad_synced)]
    /\ ad_fi' = ad_fi + 1
    /\ ad_synced' = {}
    /\ ad_pc' = "gmail_label"
    /\ UNCHANGED <<orchVars, adCfg, ad_parked, remote, files, mtime, old_state, adHist,
                   ad_new, ad_i, ad_num, ad_total, ad_result>>

\* After the last label: return total_new.
GmailReturn ==
    /\ ad_pc = "gmail_label"
    /\ ad_fi > Len(ad_folders)
    /\ AdFinish(Ok(ad_total))
    /\ UNCHANGED <<orchVars, adCfg, ad_parked, remote, adFs,
                   ad_writes, ad_rewritten, ad_state0, ad_pre_clean, ad_changed>>

\* ---------------------------------------------- sync_imap: sync_imap_account
\* with IMAPClient(...) as client: client.login(user, password); folders.
ImapConnect ==
    /\ ad_pc = "imap_connect"
    /\ \E ok \in BOOLEAN :
        IF ok
        THEN /\ ad_total' = 0
             /\ ad_fi' = 1
             /\ ad_pc' = "imap_folder"
             /\ UNCHANGED <<ad_synced, ad_new, ad_i, ad_num, ad_result, ad_clean>>
        ELSE AdFinish(Raise("LoginError"))
    /\ UNCHANGED <<orchVars, adCfg, ad_parked, remote, adFs,
                   ad_writes, ad_rewritten, ad_state0, ad_pre_clean, ad_changed>>

\* The first statement of for folder in folders: imap_folder_to_dir is not
\* defined in the module (the import is imap_folder_to_path): NameError.
ImapFolder ==
    /\ ad_pc = "imap_folder"
    /\ ad_fi <= Len(ad_folders)
    /\ AdFinish(Raise("NameError"))
    /\ UNCHANGED <<orchVars, adCfg, ad_parked, remote, adFs,
                   ad_writes, ad_rewritten, ad_state0, ad_pre_clean, ad_changed>>

\* With no folder to visit: return total_new.
ImapReturn ==
    /\ ad_pc = "imap_folder"
    /\ ad_fi > Len(ad_folders)
    /\ AdFinish(Ok(ad_total))
    /\ UNCHANGED <<orchVars, adCfg, ad_parked, remote, adFs,
                   ad_writes, ad_rewritten, ad_state0, ad_pre_clean, ad_changed>>

\* ------------------------------------------------------------ AdapterSpec
\* cfg["folders"] of an IMAP account, cfg["labels"] of a Gmail account.  The
\* IMAP folder "Gone" is configured but no longer on the server.
FolderConfigs ==
    CASE ad_type = "IMAP" -> {<<>>, <<"INBOX">>, <<"Gone", "INBOX">>, <<"INBOX", "SENT">>}
      [] ad_type = "POP3" -> {<<>>}
      [] ad_type = "GMAIL_API" -> {<<"INBOX", "SENT">>}

\* The legacy state: none, or a file of at most one identifier.
LegacyStates ==
    LET ids == IF ad_type = "POP3" THEN {msg_hash(r) : r \in Ids} ELSE Ids
    IN  {NoFile, save_synced({})} \cup {save_synced({x}) : x \in ids}

AdapterInit ==
    /\ OrchInit
    /\ AdEmpty
    /\ StIdle
    /\ ad_type \in AdapterTypes
    /\ ad_folders \in FolderConfigs
    /\ old_state \in LegacyStates

AdapterNext ==
    \/ AdBegin
    \/ \E f \in RemoteFolders, m \in Ids : RemoteAppend(f, m)
    \/ Pop3Start
    \/ Pop3Connect
    \/ Pop3Retr
    \/ Pop3Save
    \/ GmailService
    \/ GmailLabel
    \/ GmailGet
    \/ GmailSave
    \/ GmailReturn
    \/ ImapConnect
    \/ ImapFolder
    \/ ImapReturn

AdapterSpec == AdapterInit /\ [][AdapterNext]_vars

\* ------------------------------------------- RestartSpec, ConcurrentSpec
\* The locals of the invocation that is running.
AdLocals ==
    [pc |-> ad_pc, fi |-> ad_fi, synced |-> ad_synced, new |-> ad_new, i |-> ad_i,
     num |-> ad_num, total |-> ad_total, result |-> ad_result]

\* daemon.main calls sync_account(cfg) in the main thread without looking at
\* _SyncState, while a _run_sync thread may be inside sync_fn(cfg) for the
\* same account: two invocations of the adapter work on the same folders.
\* The interpreter switches from the one to the other between two statements.
AdSwitch ==
    /\ ad_pc # "idle"
    /\ ad_parked # AdLocals
    /\ ad_pc' = ad_parked.pc
    /\ ad_fi' = ad_parked.fi
    /\ ad_synced' = ad_parked.synced
    /\ ad_new' = ad_parked.new
    /\ ad_i' = ad_parked.i
    /\ ad_num' = ad_parked.num
    /\ ad_total' = ad_parked.total
    /\ ad_result' = ad_parked.result
    /\ ad_parked' = AdLocals
    /\ UNCHANGED <<orchVars, adCfg, remote, adFs, adHist>>

\* The sequences of at most n members of S.
RECURSIVE SeqsUpTo(_, _)
SeqsUpTo(S, n) ==
    IF n = 0 THEN {<<>>}
    ELSE LET shorter == SeqsUpTo(S, n - 1)
         IN  shorter \cup {Append(q, x) : q \in shorter, x \in S}

\* The mailboxes RemoteAppend builds: any contents for POP3, UIDs 1..n in
\* each folder for IMAP, ascending identifiers within a label for Gmail.
Mailboxes ==
    {r \in [RemoteFolders -> SeqsUpTo(Ids, MaxMsgs)] :
        CASE ad_type = "POP3" -> r["SENT"] = <<>>
          [] ad_type = "IMAP" ->
                \A f \in RemoteFolders : \A i \in 1..Len(r[f]) : r[f][i] = i
          [] ad_type = "GMAIL_API" ->
                \A f \in RemoteFolders :
                    \A i, j \in 1..Len(r[f]) : i < j => r[f][i] < r[f][j]}

FixedInit ==
    /\ OrchInit
    /\ AdFresh
    /\ StIdle
    /\ ad_type \in AdapterTypes
    /\ ad_folders \in FolderConfigs
    /\ old_state = NoFile
    /\ remote \in Mailboxes

\* One account's adapter run again and again against a mailbox that stays as
\* it is; a run returns, raises, or ends with the process.
RestartNext ==
    \/ AdBegin
    \/ AdCrash
    \/ Pop3Start
    \/ Pop3Connect
    \/ Pop3Retr
    \/ Pop3Save
    \/ GmailService
    \/ GmailLabel
    \/ GmailGet
    \/ GmailSave
    \/ GmailReturn
    \/ ImapConnect
    \/ ImapFolder
    \/ ImapReturn

RestartSpec == FixedInit /\ [][RestartNext]_vars

\* Each of the two threads calls the adapter once; the mailbox stays as it is.
ConcurrentNext ==
    \/ ad_pc = "idle" /\ AdBegin
    \/ AdSwitch
    \/ Pop3Start
    \/ Pop3Connect
    \/ Pop3Retr
    \/ Pop3Save
    \/ GmailService
    \/ GmailLabel
    \/ GmailGet
    \/ GmailSave
    \/ GmailReturn
    \/ ImapConnect
    \/ ImapFolder
    \/ ImapReturn

\* One account's adapter run by the scheduler and by a _run_sync thread at
\* the same time.
ConcurrentSpec == FixedInit /\ [][ConcurrentNext]_vars

\* ------------------------------------------------- state files as text
\* The characters of a state file, in the order of their code points: the
\* line feed, the blank, the digits, the hexadecimal letters.
LF == "\n"
Whitespace == {LF, " "}
Digits == <<"0", "1", "2", "3", "4", "5", "6", "7", "8", "9">>
Alphabet == <<LF, " ">> \o Digits \o <<"a", "b", "c", "d", "e", "f">>
ord(c) == CHOOSE k \in 1..Len(Alphabet) : Alphabet[k] = c

\* str(uid): the decimal digits of a non-negative integer.
RECURSIVE str(_)
str(n) ==
    IF n < 10 THEN <<Digits[n + 1]>>
    ELSE str(n \div 10) \o <<Digits[(n % 10) + 1]>>

\* text.strip(): without its leading and trailing whitespace.
RECURSIVE lstrip(_)
lstrip(text) ==
    IF text # <<>> /\ Head(text) \in Whitespace THEN lstrip(Tail(text)) ELSE text
RECURSIVE rstrip(_)
rstrip(text) ==
    IF text # <<>> /\ text[Len(text)] \in Whitespace
    THEN rstrip(SubSeq(text, 1, Len(text) - 1))
    ELSE text
strip(text) == rstrip(lstrip(text))

\* int(uid): the value of the digits between the whitespace; ValueError
\* for anything else.
RECURSIVE int_digits(_)
int_digits(d) ==
    IF Len(d) = 1 THEN ord(d[1]) - ord("0")
    ELSE 10 * int_digits(SubSeq(d, 1, Len(d) - 1)) + (ord(d[Len(d)]) - ord("0"))
int(text) ==
    LET d == strip(text)
    IN  IF d # <<>> /\ \A k \in 1..Len(d) : d[k] \in SeqSet(Digits)
        THEN int_digits(d)
        ELSE "ValueError"

\* text.split("\n"): the pieces between the line feeds (one piece, the
\* text itself, when it has none).
RECURSIVE split(_)
split(text) ==
    IF \A k \in 1..Len(text) : text[k] # LF THEN <<text>>
    ELSE LET k == CHOOSE k \in 1..Len(text) :
                      text[k] = LF /\ \A j \in 1..(k - 1) : text[j] # LF
         IN  <<SubSeq(text, 1, k - 1)>> \o split(SubSeq(text, k + 1, Len(text)))

\* "\n".join(lines)
RECURSIVE join(_)
join(lines) ==
    IF lines = <<>> THEN <<>>
    ELSE IF Len(lines) = 1 THEN lines[1]
    ELSE lines[1] \o <<LF>> \o join(Tail(lines))

\* The order of Python's strings: by code point, a prefix first.
RECURSIVE str_lt(_, _)
str_lt(s, t) ==
    IF t = <<>> THEN FALSE
    ELSE IF s = <<>> THEN TRUE
    ELSE IF Head(s) # Head(t) THEN ord(Head(s)) < ord(Head(t))
    ELSE str_lt(Tail(s), Tail(t))

\* sorted(hashes)
RECURSIVE sorted_strs(_)
sorted_strs(S) ==
    IF S = {} THEN <<>>
    ELSE LET m == CHOOSE x \in S : \A y \in S \ {x} : str_lt(x, y)
         IN  <<m>> \o sorted_strs(S \ {m})

\* The non-blank lines of a text: [l for l in text.split("\n") if l.strip()]
NonBlankLines(text) == {l \in SeqSet(split(text)) : strip(l) # <<>>}

\* Variant: _save_synced_uids that sorts the UIDs as the strings they are
\* written as.
save_synced_uids_lex(uids) ==
    [exists |-> TRUE, text |-> join(sorted_strs({str(uid) : uid \in uids}))]
\* state_file.write_text("\n".join(str(uid) for uid in sorted(uids)))
save_synced_uids(uids) ==
    [exists |-> TRUE,
     text |-> join([k \in 1..Cardinality(uids) |-> str(Sorted(uids)[k])])]

\* sync_imap._load_synced_uids
load_synced_uids(state_file) ==
    IF ~state_file.exists THEN {}
    ELSE LET text == strip(state_file.text)
         IN  IF text = <<>> THEN {}
             ELSE {int(uid) : uid \in NonBlankLines(text)}

\* state_file.write_text("\n".join(sorted(hashes)))
save_synced_hashes(hashes) == [exists |-> TRUE, text |-> join(sorted_strs(hashes))]

\* sync_pop3._load_synced_hashes
load_synced_hashes(state_file) ==
    IF ~state_file.exists THEN {}
    ELSE LET text == strip(state_file.text)
         IN  IF text = <<>> THEN {}
             ELSE NonBlankLines(text)

\* ---------------------------------------------------------- StateFileSpec
\* The identifiers of either kind: the UIDs, and the hashes as strings of
\* hexadecimal digits of one length.
Uids == 1..MaxUid
HashChars == {"0", "a", "f"}
Hashes == [1..HashLen -> HashChars]
StateIds(kind) == IF kind = "uids" THEN Uids ELSE Hashes

\* The sets of at most n members of D.
SetsUpTo(D, n) == {{}} \cup {{f[k] : k \in 1..n} : f \in [1..n -> D]}

save_state(kind, ids) ==
    IF kind = "uids" THEN save_synced_uids(ids) ELSE save_synced_hashes(ids)
load_state(kind, state_file) ==
    IF kind = "uids" THEN load_synced_uids(state_file) ELSE load_synced_hashes(state_file)

\* The state file before the save: missing, empty, blank, or the file an
\* earlier save of one identifier has left.
Artifacts(kind) ==
    {NoText, [exists |-> TRUE, text |-> <<>>], [exists |-> TRUE, text |-> <<" ", LF>>]}
        \cup {save_state(kind, {x}) : x \in StateIds(kind)}

StateFileInit ==
    /\ OrchInit
    /\ AdEmpty
    /\ ad_type = "POP3"
    /\ ad_folders = <<>>
    /\ old_state = NoFile
    /\ st_kind \in {"uids", "hashes"}
    /\ st_ids \in SetsUpTo(StateIds(st_kind), MaxStateIds)
    /\ st_file \in Artifacts(st_kind)
    /\ st_loaded = {}
    /\ st_pc = "init"

\* synced = _load_synced_...(state_file)
StLoad ==
    /\ st_pc \in {"init", "saved"}
    /\ st_loaded' = load_state(st_kind, st_file)
    /\ st_pc' = IF st_pc = "init" THEN "loaded" ELSE "reloaded"
    /\ UNCHANGED <<orchVars, ad_type, ad_folders, st_kind, st_ids, st_file,
                   remote, adFs, adRun, ad_parked, adHist>>

\* _save_synced_...(state_file, ids)
StSave ==
    /\ st_pc \in {"init", "loaded"}
    /\ st_file' = save_state(st_kind, st_ids)
    /\ st_pc' = "saved"
    /\ UNCHANGED <<orchVars, ad_type, ad_folders, st_kind, st_ids, st_loaded,
                   remote, adFs, adRun, ad_parked, adHist>>

StateFileNext == StLoad \/ StSave

StateFileSpec == StateFileInit /\ [][StateFileNext]_vars

\* ------------------------------------------------------------------ Spec
Next ==
    \/ SchedFinish
    \/ MainLoop
    \/ HandleSignal
    \/ \E r \in Req, name \in RequestNames : ReqPost(r, name)
    \/ \E r \in Req : TriggerAcquire(r)
    \/ \E r \in Req : TriggerCheck(r)
    \/ \E r \in Req : TriggerReject(r)
    \/ \E r \in Req : TriggerSetSyncing(r)
    \/ \E r \in Req : TriggerSetError(r)
    \/ \E r \in Req : TriggerSpawn(r)
    \/ \E r \in Req : ReqGet(r)
    \/ \E r \in Req : QueryAcquire(r)
    \/ \E r \in Req : QueryCopy(r)
    \/ \E r \in Req : QueryReturn(r)
    \/ \E r \in Req : ReqDone(r)
    \/ \E w \in Wrk : WorkerAdapterDone(w)
    \/ \E w \in Wrk : WorkerAcquire(w)
    \/ \E w \in Wrk : WorkerOkSyncing(w)
    \/ \E w \in Wrk : WorkerOkLastSync(w)
    \/ \E w \in Wrk : WorkerOkError(w)
    \/ \E w \in Wrk : WorkerOkCount(w)
    \/ \E w \in Wrk : WorkerErrSyncing(w)
    \/ \E w \in Wrk : WorkerErrError(w)
    \/ \E w \in Wrk : WorkerRelease(w)

Spec == Init /\ [][Next]_vars

\* The threads of the trigger API alone: the main thread, which shares with
\* them no variable but the life of the process, takes no step.
ApiNext ==
    \/ \E r \in Req, name \in RequestNames : ReqPost(r, name)
    \/ \E r \in Req : TriggerAcquire(r)
    \/ \E r \in Req : TriggerCheck(r)
    \/ \E r \in Req : TriggerReject(r)
    \/ \E r \in Req : TriggerSetSyncing(r)
    \/ \E r \in Req : TriggerSetError(r)
    \/ \E r \in Req : TriggerSpawn(r)
    \/ \E r \in Req : ReqGet(r)
    \/ \E r \in Req : QueryAcquire(r)
    \/ \E r \in Req : QueryCopy(r)
    \/ \E r \in Req : QueryReturn(r)
    \/ \E r \in Req : ReqDone(r)
    \/ \E w \in Wrk : WorkerAdapterDone(w)
    \/ \E w \in Wrk : WorkerAcquire(w)
    \/ \E w \in Wrk : WorkerOkSyncing(w)
    \/ \E w \in Wrk : WorkerOkLastSync(w)
    \/ \E w \in Wrk : WorkerOkError(w)
    \/ \E w \in Wrk : WorkerOkCount(w)
    \/ \E w \in Wrk : WorkerErrSyncing(w)
    \/ \E w \in Wrk : WorkerErrError(w)
    \/ \E w \in Wrk : WorkerRelease(w)

\* Every thread that can run does run; a thread waiting for the lock gets it
\* when the lock is free again and again; every adapter invocation returns
\* or raises.  New requests may stop arriving.
ApiFairness ==
    /\ \A r \in Req :
          /\ WF_vars(TriggerCheck(r)) /\ WF_vars(TriggerReject(r))
          /\ WF_vars(TriggerSetSyncing(r))
          /\ WF_vars(TriggerSetError(r)) /\ WF_vars(TriggerSpawn(r))
          /\ WF_vars(QueryCopy(r)) /\ WF_vars(QueryReturn(r))
    /\ \A w \in Wrk :
          /\ WF_vars(WorkerAdapterDone(w)) /\ SF_vars(WorkerAcquire(w))
          /\ WF_vars(WorkerOkSyncing(w)) /\ WF_vars(WorkerOkLastSync(w))
          /\ WF_vars(WorkerOkError(w)) /\ WF_vars(WorkerOkCount(w))
          /\ WF_vars(WorkerErrSyncing(w)) /\ WF_vars(WorkerErrError(w))
          /\ WF_vars(WorkerRelease(w))

ApiFairSpec == Init /\ [][ApiNext]_vars /\ ApiFairness

\* ================================================================ claims
\* The adapter invocations for account a that have started and have neither
\* returned nor raised: the scheduler's and the _run_sync threads'.
InFlight(a) ==
    (IF sched_run = a THEN {<<"main", 0>>} ELSE {})
        \cup {WrkTid(w) : w \in {v \in Wrk : wpc[v] = "run" /\ Target(v) = a}}

\* The step of _run_sync thread w that leaves statement pc.
WrkStep(w, pc) == wpc[w] = pc /\ (wpc'[w] # pc \/ wi'[w] # wi[w])

\* Request r is a trigger that has made its check; these are the targets it
\* found Syncing and the targets it found Idle.
Checked(r) == rpc[r] \in {"reject", "set_syncing", "set_error", "spawn", "done"}
                  /\ DOMAIN rhist[r].flags # {}
FoundSyncing(r) == {n \in DOMAIN rhist[r].flags : rhist[r].flags[n]}
FoundIdle(r) == {n \in DOMAIN rhist[r].flags : ~rhist[r].flags[n]}

\* Request r has its 409 answer and is about to leave the with block.
Rejecting(r) == rpc[r] = "reject"

\* The request has written no status and started no thread; while it still
\* holds the lock, every status is the one the last release left.
ChangedNothing(r) ==
    /\ ~rhist[r].wrote
    /\ rhist[r].started = 0
    /\ Rejecting(r) => status = committed

\* C1: for every account, in every reachable state of the daemon, at most
\* one adapter invocation for the account is in flight.
C1_AtMostOneInFlight == \A a \in Accounts : Cardinality(InFlight(a)) <= 1

\* C2: a trigger that names a known account and finds it Syncing at its
\* check is answered 409 naming that account; it writes no status, starts no
\* _run_sync thread and is not kept: its next step is its return.
C2_SyncingRejected ==
    \A r \in Req :
        (Checked(r) /\ Truthy(rname[r]) /\ FoundSyncing(r) # {})
            => /\ rpc[r] \in {"reject", "done"}
               /\ rresp[r] = [code |-> 409, accounts |-> <<rname[r]>>]
               /\ ChangedNothing(r)

C2_Witness ==
    \E r \in Req :
        /\ Rejecting(r) /\ Truthy(rname[r]) /\ rresp[r].code = 409
        /\ \E w \in Wrk : wpc[w] = "run" /\ Target(w) = rname[r]

C5_IdleExactlyOnce ==
    /\ [](\A a \in Accounts : owed[a] = IF status[a].syncing THEN 1 ELSE 0)
    /\ \A a \in Accounts : status[a].syncing ~> ~status[a].syncing

C5_Witness ==
    /\ owed["beta"] = 0 /\ ~status["beta"].syncing
    /\ status["beta"].last_sync # NoTime /\ status["beta"].last_error # None

C8_SnapshotCommitted ==
    \A r \in Req :
        /\ rpc[r] \in {"qcopy", "qreturn"} =>
              \A i \in 1..Len(rsnap[r]) :
                  /\ rsnap[r][i].name = AccountOrder[i]
                  /\ rsnap[r][i].s = committed[AccountOrder[i]]
        /\ rpc[r] = "qreturn" => Len(rsnap[r]) = Len(AccountOrder)

C8_Witness ==
    \E r \in Req :
        /\ rpc[r] = "qreturn"
        /\ rsnap[r][2].s.syncing /\ rsnap[r][2].s.new_messages = 1
        /\ \E w \in Wrk : wpc[w] = "lock" /\ Target(w) = "beta" /\ wres[w].ok
        /\ \E q \in Req : rpc[q] = "lock"

\* C9: the main thread survives every adapter failure and, whatever the
\* outcome of one job, goes on with the jobs after it; a _run_sync thread
\* whose invocation raised goes on to its next target, and ends only after
\* its last one.
C9_ErrorIsolation ==
    /\ [](main_pc # "crashed")
    /\ [][/\ (main_pc \in {"initial", "pending"} /\ sched_due' # sched_due)
                => /\ sched_due' = Tail(sched_due)
                   /\ main_pc' = IF sched_due' = <<>> THEN "loop" ELSE main_pc
          /\ \A w \in Wrk :
                /\ WrkStep(w, "err_done") /\ wi[w] < Len(wtargets[w])
                      => /\ wpc'[w] = "run"
                         /\ wtargets'[w] = wtargets[w]
                         /\ wi'[w] = wi[w] + 1
                /\ (wpc[w] # "free" /\ wpc'[w] = "free")
                      => wi[w] = Len(wtargets[w])]_vars

C9_Witness ==
    /\ main_pc = "initial" /\ sched_run = "beta"
    /\ \E w \in Wrk :
          /\ wpc[w] = "run" /\ wtargets[w] = AccountOrder /\ Target(w) = "beta"
          /\ status["acme"].last_error = "NameError"

\* ---------------------------------------------------------------- C10
\* Both the previous run returned with the remote mailbox as it saw it and
\* the remote has not changed since the current run began.
SecondRun == ad_pc # "idle" /\ ad_pre_clean /\ ~ad_changed

SameIds == \A d \in Dirs : load_synced(sfile[d]) = load_synced(ad_state0[d])

\* C10: idempotence.  For each adapter, when a sync run has completed
\* successfully and the remote mailbox is unchanged, the next sync run
\* writes no file, adds no identifier to any folder's SyncState and, when it
\* returns, returns count 0.
C10_Idempotent ==
    SecondRun =>
        /\ ad_writes = 0
        /\ ad_total = 0
        /\ SameIds
        /\ (ad_pc = "done" /\ ad_result.ok => ad_result.count = 0)

\* A second run of the POP3 or Gmail adapter returned 0 over an archive that
\* the earlier runs filled.
C10_Witness ==
    /\ SecondRun
    /\ ad_pc = "done"
    /\ ad_result = Ok(0)
    /\ ad_type # "IMAP"
    /\ files["inbox"] # {}
    /\ sfile["inbox"].lines # <<>>

\* ---------------------------------------------------------------- C11
\* The identifiers of the files of local folder d, and those its SyncState holds.
FileIds(d) == {fn[2] : fn \in files[d]}
Persisted(d) == load_synced(sfile[d])

\* C11: no file is written over: a sync that comes to a message whose file
\* name already exists in the folder skips the write, so no file of the
\* archive is ever written a second time; and the identifier is recorded all
\* the same: after a run that returned, the SyncState of a folder holds the
\* identifier of every file of the folder.
C11_NoOverwrite ==
    /\ \A d \in Dirs : ad_rewritten[d] = {}
    /\ (ad_pc = "done" /\ ad_result.ok) => \A d \in Dirs : FileIds(d) \subseteq Persisted(d)

Interrupted == ad_pc = "done" /\ ~ad_result.ok

\* The identifiers of the files of folder d that its SyncState does not hold.
Unsaved(d) == FileIds(d) \ Persisted(d)

\* C13: when a run has been interrupted, the files written whose identifiers
\* are not in the persisted SyncState of their folder are at most those of
\* one batch.
C13_CrashSafe ==
    Interrupted => \A d \in Dirs : Cardinality(Unsaved(d)) <= SaveEvery

\* ---------------------------------------------------------------- C14
\* The (folder, identifier) pairs for which a file has been written again
\* after it had been written.
Redownloaded == UNION {{<<d, fn[2]>> : fn \in ad_rewritten[d]} : d \in Dirs}

\* C14: a message captured once is never downloaded again: for no folder and
\* identifier is a file written by a run after a file for the same folder
\* and identifier has been written, by this run or by another.
C14_NoRedownload == Redownloaded = {}

\* ---------------------------------------------------------------- C15
\* The identifiers of the remote messages that the account's configuration
\* maps to local folder d.
RemoteIds(d) ==
    CASE ad_type = "POP3" ->
            IF d = "inbox" THEN {msg_hash(remote["INBOX"][i]) : i \in 1..Len(remote["INBOX"])}
            ELSE {}
      [] ad_type = "GMAIL_API" ->
            UNION {SeqSet(remote[ad_folders[k]]) :
                      k \in {j \in 1..Len(ad_folders) : GMAIL_LABEL_MAP(ad_folders[j]) = d}}
      [] ad_type = "IMAP" ->
            UNION {SeqSet(remote[f]) :
                      f \in {g \in SeqSet(ad_folders) \cap RemoteFolders :
                                imap_folder_to_path(g) = d}}

\* A run has returned that did not follow a run that returned: it is the
\* first run or it follows an interruption.
Recovered == ad_pc = "done" /\ ad_result.ok /\ ~ad_pre_clean

\* C15: a run that completes on the unchanged remote after an interruption
\* took the messages written before the interruption for synced (it wrote
\* none of their files again), and at its end every remote message of every
\* folder has its file and its identifier in the SyncState.
C15_Recovery ==
    Recovered =>
        /\ \A d \in Dirs : ad_rewritten[d] = {}
        /\ \A d \in Dirs : RemoteIds(d) \subseteq (FileIds(d) \cap Persisted(d))

\* ---------------------------------------------------------------- C16
\* An IMAP run over the configured folder INBOX has ended, the remote is as
\* it was when the run began, and the connection did not fail.
ImapRunEnded ==
    /\ ad_type = "IMAP" /\ "INBOX" \in SeqSet(ad_folders)
    /\ ad_pc = "done" /\ ~ad_changed
    /\ ad_result.err # "LoginError"

\* C16: an IMAP run over a folder whose SyncState is S and whose remote UIDs
\* are R writes one file for each UID of R not in S, leaves SyncState S \cup R
\* and returns the number of those UIDs (3 for S = {} and R = [1,2,3], then
\* 1 once the remote has gained UID 4).
C16_ImapDelta ==
    ImapRunEnded =>
        LET S == load_synced(Migrated(ad_state0["inbox"]))
            R == SeqSet(remote["INBOX"])
        IN  /\ ad_result = Ok(Cardinality(R \ S))
            /\ ad_writes = Cardinality(R \ S)
            /\ Persisted("inbox") = S \cup R
            /\ R \subseteq FileIds("inbox")

\* ---------------------------------------------------------------- C17
\* A POP3 run has returned and the mailbox is as it was when the run began.
Pop3RunReturned == ad_type = "POP3" /\ ad_pc = "done" /\ ad_result.ok /\ ~ad_changed

\* The distinct raw contents of the mailbox whose hash the SyncState did not
\* hold when the run began.
Pop3NewContents ==
    {raw \in SeqSet(remote["INBOX"]) :
        msg_hash(raw) \notin load_synced(Migrated(ad_state0["inbox"]))}

\* C17: a POP3 run writes one file for each distinct content of the mailbox
\* whose hash is not in the SyncState: messages that differ in their bytes
\* get distinct files, a message with the bytes of one already seen (in the
\* state or earlier in the run) writes nothing; the run returns that number
\* and leaves every hash of the mailbox in the SyncState.
C17_Pop3Dedup ==
    Pop3RunReturned =>
        /\ ad_writes = Cardinality(Pop3NewContents)
        /\ ad_result.count = Cardinality(Pop3NewContents)
        /\ \A raw \in Pop3NewContents :
              <<content_checksum(raw), msg_hash(raw)>> \in files["inbox"]
        /\ \A raw1, raw2 \in Pop3NewContents :
              raw1 # raw2 => <<content_checksum(raw1), msg_hash(raw1)>>
                                 # <<content_checksum(raw2), msg_hash(raw2)>>
        /\ Persisted("inbox") =
              load_synced(Migrated(ad_state0["inbox"]))
                  \cup {msg_hash(raw) : raw \in SeqSet(remote["INBOX"])}

\* The mailbox held two copies of one content and another content, all of
\* them new: the run wrote two files.
C17_Witness ==
    /\ Pop3RunReturned
    /\ Len(remote["INBOX"]) = 3
    /\ Cardinality(SeqSet(remote["INBOX"])) = 2
    /\ Cardinality(Pop3NewContents) = 2
    /\ ad_writes = 2
    /\ Cardinality(files["inbox"]) = 2

\* ---------------------------------------------------------------- C18
\* The step in which sync_account(cfg) for account a returns to the
\* scheduler, and the accounts whose adapter raises in every invocation.
SchedReturns(a) == sched_run = a /\ <<main_pc, sched_due>>' # <<main_pc, sched_due>>
AlwaysRaises(a) == \A outcome \in RunSyncOutcomes(a) : ~outcome.ok

\* C18: an adapter failure ends in the account's status and stops nothing:
\* when sync_account returns to the scheduler after the adapter raised, and
\* when a _run_sync thread leaves its except branch, the status of the
\* account holds the error, and the main thread has not died.
C18_FailureInStatus ==
    [][/\ \A a \in Accounts :
             (SchedReturns(a) /\ AlwaysRaises(a)) =>
                 /\ status'[a].last_error \in {outcome.err : outcome \in RunSyncOutcomes(a)}
                 /\ main_pc' # "crashed"
       /\ \A w \in Wrk :
             WrkStep(w, "err_error") =>
                 /\ status'[Target(w)].last_error = ErrorText(wres[w])
                 /\ ~status'[Target(w)].syncing
                 /\ main_pc' # "crashed"]_vars

\* ---------------------------------------------------------------- C19
\* client.select_folder(folder) succeeds for the folders the server has.
Selectable(folder) == folder \in RemoteFolders

\* An IMAP run has ended whose configuration names a folder that cannot be
\* selected; the connection did not fail and the remote did not change.
ImapRunEndedWithGone ==
    /\ ad_type = "IMAP" /\ ad_pc = "done" /\ ~ad_changed
    /\ ad_result.err # "LoginError"
    /\ \E k \in 1..Len(ad_folders) : ~Selectable(ad_folders[k])

\* C19: an IMAP run skips a folder that cannot be selected: the run returns
\* its count instead of failing, and the folders that can be selected are
\* synced: every UID of the remote INBOX has its file and is in the
\* SyncState of inbox.
C19_SelectFailureSkipped ==
    ImapRunEndedWithGone =>
        /\ ad_result.ok
        /\ ad_result.count = ad_writes
        /\ "INBOX" \in SeqSet(ad_folders) =>
              SeqSet(remote["INBOX"]) \subseteq (FileIds("inbox") \cap Persisted("inbox"))

\* ---------------------------------------------------------------- C20
\* The raw messages of the remote that the account's configuration maps to
\* local folder d, each with its identifier.
RemoteMessages(d) ==
    CASE ad_type = "POP3" ->
            IF d = "inbox"
            THEN {<<remote["INBOX"][i], msg_hash(remote["INBOX"][i])>> :
                     i \in 1..Len(remote["INBOX"])}
            ELSE {}
      [] ad_type = "GMAIL_API" -> {<<GmailRaw(mid), mid>> : mid \in RemoteIds(d)}
      [] ad_type = "IMAP" -> {<<uid, uid>> : uid \in RemoteIds(d)}

\* C20: a message whose Date header is missing or cannot be parsed does not
\* make the run fail; when the run has returned, the message has its file,
\* with the current time as the file's time, and its identifier is in the
\* SyncState.
C20_DateFallback ==
    /\ ad_result.err # "ValueError"
    /\ (ad_pc = "done" /\ ad_result.ok /\ ~ad_changed) =>
          \A d \in Dirs : \A m \in RemoteMessages(d) :
              DateHeader(m[1]) # "valid" =>
                  /\ <<content_checksum(m[1]), m[2]>> \in files[d]
                  /\ <<<<content_checksum(m[1]), m[2]>>, "now">> \in mtime[d]
                  /\ m[2] \in Persisted(d)

\* ---------------------------------------------------------------- C21
\* C21: while the scheduler runs sync_account for account a (the initial
\* sync or a tick), the status of a is Syncing: a status query reports a as
\* syncing and trigger_sync finds a among the accounts already running.
C21_SchedulerSetsSyncing ==
    \A a \in Accounts :
        sched_run = a =>
            /\ status[a].syncing
            /\ a \in SeqSet(Already(<<a>>))

\* ---------------------------------------------------------------- C22
\* The statements of trigger_sync and get_accounts, and those of _run_sync,
\* that are inside a `with self._lock:` block.
ReqInWith == {"check", "reject", "set_syncing", "set_error", "qcopy", "qreturn"}
WrkInWith == {"ok_syncing", "ok_last_sync", "ok_error", "ok_count", "ok_done",
              "err_syncing", "err_error", "err_done"}

\* Whoever holds the lock is inside a with block, which it leaves by steps
\* of its own: none of them waits for an adapter invocation or for another
\* thread.
HolderInWith ==
    /\ \A r \in Req : lock = ReqTid(r) => rpc[r] \in ReqInWith
    /\ \A w \in Wrk : lock = WrkTid(w) => wpc[w] \in WrkInWith

\* C22: the status lock is never held for an adapter invocation: a thread
\* that is inside sync_fn(cfg) does not hold the lock, and whoever holds the
\* lock is inside a with block of status reads and writes only, so a query
\* or a trigger for another account gets the lock without waiting for the
\* invocation to end.
C22_LockNotHeldDuringSync ==
    /\ \A w \in Wrk : wpc[w] = "run" => lock # WrkTid(w)
    /\ HolderInWith

\* While the triggered invocation for acme is in flight, a status query has
\* taken the lock and read acme as syncing, and a trigger for beta has been
\* accepted and its invocation is in flight too.
C22_Witness ==
    /\ wpc[1] = "run" /\ wtargets[1] = <<"acme">>
    /\ wpc[2] = "run" /\ wtargets[2] = <<"beta">>
    /\ \E r \in Req : rpc[r] = "done" /\ rname[r] = "beta" /\ rresp[r].code = 202
    /\ \E r \in Req :
          /\ rpc[r] = "qreturn"
          /\ lock = ReqTid(r)
          /\ rsnap[r][1].name = "acme" /\ rsnap[r][1].s.syncing

\* ---------------------------------------------------------------- C23
\* Account b is due and its sync_account has not been called yet: its job
\* is behind the one the main thread is executing.
Waiting(b) ==
    /\ main_pc \in {"initial", "pending"}
    /\ \E i \in 2..Len(sched_due) : sched_due[i] = b

\* The scheduler can call sync_account for account b in its next step: as
\* the first job of a tick, or as the job after the one that returns.
CanStart(b) ==
    \/ ENABLED (MainLoop /\ main_pc' = "pending" /\ Head(sched_due') = b)
    \/ ENABLED (SchedFinish /\ main_pc' \in {"initial", "pending"} /\ Head(sched_due') = b)

\* C23 as stated: no due account waits while an adapter invocation of
\* another account is in flight, whoever started it.
C23_NeverWaits ==
    \A a, b \in Accounts :
        (a # b /\ InFlight(a) # {}) => ~Waiting(b)

\* C23, amended: an invocation in a _run_sync thread never delays the
\* scheduler: whatever those threads and the lock are doing, a tick that is
\* not shut down can start the sync of every account, and a due account
\* waits for nothing but the return of the scheduler's own running job, of
\* which there is exactly one at a time.
C23_TriggeredSyncDoesNotBlock ==
    /\ (main_pc = "loop" /\ ~shutdown_requested) =>
          \A b \in Accounts : CanStart(b)
    /\ \A b \in Accounts :
          Waiting(b) => /\ sched_run \in Accounts
                        /\ sched_due[2] = b => CanStart(b)

\* The triggered invocation for acme is in flight (and the lock is taken by
\* a request) while the main thread is between two ticks.
C23_Witness ==
    /\ \E w \in Wrk : wpc[w] = "run" /\ Target(w) = "acme"
    /\ lock # Free
    /\ main_pc = "loop"
    /\ ~shutdown_requested

\* ---------------------------------------------------------------- C24
\* The _run_sync thread w of a sync-all is inside sync_fn for one target
\* and has targets left whose sync_fn has not been called.
TargetsLeft(w) == {wtargets[w][i] : i \in (wi[w] + 1)..Len(wtargets[w])}
RunningWithTargetsLeft(w) == wpc[w] = "run" /\ TargetsLeft(w) # {}

\* The thread can call sync_fn for its next target in its next step.
CanStartNextTarget(w) == ENABLED (WorkerRelease(w) /\ wi'[w] = wi[w] + 1)

\* The invocations the trigger API has in flight for account a.
TriggeredInFlight(a) == {w \in Wrk : wpc[w] = "run" /\ Target(w) = a}

\* C24 as stated: the invocation of a later target of a sync-all can start
\* while the invocation of an earlier target is in flight.
C24_TargetsStartIndependently ==
    \A w \in Wrk : RunningWithTargetsLeft(w) => CanStartNextTarget(w)

\* C24, amended: the targets of an accepted sync-all are synced one after
\* the other by one thread, in the order of the accounts: while the
\* invocation of one target is in flight the invocation of a later target
\* cannot start, the later target is shown as syncing although none of its
\* invocations is in flight, and so no two targets of the same sync-all are
\* in flight at the same time.
C24_SyncAllSequential ==
    \A w \in Wrk :
        /\ RunningWithTargetsLeft(w) => ~CanStartNextTarget(w)
        /\ wpc[w] # "free" =>
              \A b \in TargetsLeft(w) :
                  /\ status[b].syncing
                  /\ TriggeredInFlight(b) = {}

\* The thread of a sync-all of acme and beta is inside sync_fn for beta:
\* the invocation for acme has raised and its status has been written.
C24_Witness ==
    \E w \in Wrk :
        /\ wtargets[w] = <<"acme", "beta">>
        /\ wi[w] = 2 /\ wpc[w] = "run"
        /\ ~status["acme"].syncing
        /\ status["acme"].last_error = "NameError"
        /\ TriggeredInFlight("acme") = {}

\* ---------------------------------------------------------------- C25
\* The local folder of remote folder or label f of the account.
FolderDir(f) ==
    IF ad_type = "GMAIL_API" THEN GMAIL_LABEL_MAP(f) ELSE imap_folder_to_path(f)

\* A run over the two configured folders INBOX and SENT has ended, the
\* remote is as it was when the run began and the connection did not fail.
TwoFolderRunEnded ==
    /\ ad_type \in {"IMAP", "GMAIL_API"}
    /\ {"INBOX", "SENT"} \subseteq SeqSet(ad_folders)
    /\ ad_pc = "done" /\ ~ad_changed
    /\ ad_result.err \notin {"LoginError", "RefreshError", "HttpError"}

\* The identifiers that both remote folders hold.
SharedIds == SeqSet(remote["INBOX"]) \cap SeqSet(remote["SENT"])

\* The identifiers the legacy account-level state hands to local folder d.
LegacyIds(d) == IF d = "inbox" THEN load_synced(old_state) ELSE {}

\* C25: the SyncState is per (account, folder): after a run over two
\* folders that hold a message with the same identifier, neither message
\* was skipped for the other: each folder has its own state entry for the
\* identifier and its own file of it (but for an identifier the folder
\* took over from the legacy state).
C25_PerFolderState ==
    TwoFolderRunEnded =>
        /\ FolderDir("INBOX") # FolderDir("SENT")
        /\ \A id \in SharedIds : \A f \in {"INBOX", "SENT"} :
              /\ id \in FileIds(FolderDir(f)) \cup LegacyIds(FolderDir(f))
              /\ id \in FileIds(FolderDir("SENT"))
              /\ id \in Persisted(FolderDir(f))

\* ---------------------------------------------------------------- C26
\* A run has ended that began with a legacy state and no inbox state, and
\* whose configuration names the inbox; the connection was made.
InboxConfigured == ad_type = "POP3" \/ "INBOX" \in SeqSet(ad_folders)
LegacyRunEnded ==
    /\ InboxConfigured
    /\ old_state.exists /\ ~ad_state0["inbox"].exists
    /\ ad_pc = "done"
    /\ ad_result.err \notin {"LoginError", "RefreshError"}

\* C26: a run that finds a legacy account-level state and no inbox state
\* takes the legacy identifiers into the inbox state before it computes the
\* delta, so it downloads none of them; a run that finds an inbox state
\* leaves it alone (what it held stays in it), and no legacy identifier
\* gets into the state of another folder unless that folder has its file.
C26_LegacyMigration ==
    /\ LegacyRunEnded =>
          /\ sfile["inbox"].exists
          /\ load_synced(old_state) \subseteq Persisted("inbox")
          /\ load_synced(old_state) \cap FileIds("inbox") = {}
    /\ ad_state0["inbox"].exists =>
          load_synced(ad_state0["inbox"]) \subseteq Persisted("inbox")
    /\ \A d \in Dirs \ {"inbox"} : Persisted(d) \subseteq FileIds(d)

\* ---------------------------------------------------------------- C27
\* The _run_sync threads whose sync_fn(cfg) call has neither returned nor
\* raised although the process has ended: main has returned after the
\* shutdown request and the interpreter has left its daemon threads.
CutOff == {w \in Wrk : main_pc = "stopped" /\ wpc[w] = "run"}

\* C27: an adapter invocation that has started runs to its end: the
\* shutdown that follows a request never leaves an invocation cut off.  (The
\* main thread stops only between two ticks, so the scheduler's own
\* invocation is never among them; those of the _run_sync threads are.)
C27_RunsToCompletion == CutOff = {}

\* ---------------------------------------------------------------- C28
\* The accounts from the k-th on, in the order of the configuration.
AccountsFrom(k) == SubSeq(AccountOrder, k, Len(AccountOrder))

\* A tick that is not shut down can run the job of account a.
CanTick(a) == ENABLED (MainLoop /\ main_pc' = "pending" /\ a \in SeqSet(sched_due'))

\* C28: at startup the main thread runs the initial sync of every
\* configured account, one after the other in the order of the
\* configuration, and enters its loop only after the last of them; the loop
\* runs the jobs that are due, for any account whenever its interval has
\* elapsed, as long as shutdown has not been requested; a tick that finds
\* the request ends the loop and starts nothing.
C28_InitialThenPeriodic ==
    [][/\ main_pc = "initial" =>
             /\ \E k \in 1..Len(AccountOrder) : sched_due = AccountsFrom(k)
             /\ main_pc' # "initial" =>
                   /\ main_pc' = "loop"
                   /\ sched_due = AccountsFrom(Len(AccountOrder))
       /\ (main_pc # "pending" /\ main_pc' = "pending") =>
             /\ main_pc = "loop" /\ ~shutdown_requested
             /\ sched_due' # <<>>
       /\ (main_pc = "loop" /\ ~shutdown_requested) =>
             /\ \A a \in Accounts : CanTick(a)
             /\ main_pc' \in {"loop", "pending"}
       /\ (main_pc = "loop" /\ shutdown_requested) => main_pc' \in {"loop", "stopped"}
       /\ (main_pc # "stopped" /\ main_pc' = "stopped") =>
             main_pc = "loop" /\ shutdown_requested]_vars

\* After the initial syncs a tick has found beta due (alone, or after acme
\* whose job has returned): the job of beta is running again.
C28_Witness ==
    /\ main_pc = "pending"
    /\ sched_due = <<"beta">>
    /\ ~shutdown_requested

\* ---------------------------------------------------------------- C29
\* The step in which the status of account a gets the time of a sync that
\* has returned: last_sync = time.time() in the success branch of _run_sync.
StampsSuccess(a) ==
    \E w \in Wrk :
        /\ WrkStep(w, "ok_last_sync")
        /\ Target(w) = a
        /\ wres[w].ok
        /\ lock = WrkTid(w)

\* A _run_sync thread is in its except branch for account a.
InExceptBranch(a) ==
    \E w \in Wrk : /\ wpc[w] \in {"err_syncing", "err_error", "err_done"}
                   /\ Target(w) = a
                   /\ ~wres[w].ok

\* C29: last_sync is written by successful syncs only: the success branch
\* sets it to the time at which the sync has returned, and no other step
\* changes it; in particular the status keeps its last sync time through
\* the whole except branch of a failed invocation.
C29_LastSyncOnlyOnSuccess ==
    [][\A a \in Accounts :
          /\ StampsSuccess(a) => status'[a].last_sync \in 1..MaxTime
          /\ status'[a].last_sync # status[a].last_sync => StampsSuccess(a)
          /\ (InExceptBranch(a) /\ ~StampsSuccess(a)) =>
                status'[a].last_sync = status[a].last_sync]_vars

\* A sync of beta has succeeded and has set the time; a later one has
\* failed and its except branch is done: the time is still there, next to
\* the error.
C29_Witness ==
    \E w \in Wrk :
        /\ wpc[w] = "err_done" /\ Target(w) = "beta"
        /\ status["beta"].last_error = "error_proto"
        /\ status["beta"].last_sync \in 1..MaxTime

\* ---------------------------------------------------------------- C30
\* The text of an identifier, and the order save sorts the members in.
IdText(kind, x) == IF kind = "uids" THEN str(x) ELSE x
IdLess(kind, l1, l2) == IF kind = "uids" THEN int(l1) < int(l2) ELSE str_lt(l1, l2)

\* The text holds the members of ids and nothing else, one per line, in
\* ascending order, with no line feed after the last; no text for no member.
OnePerLine(kind, ids, text) ==
    IF ids = {} THEN text = <<>>
    ELSE LET lines == split(text)
         IN  /\ Len(lines) = Cardinality(ids)
             /\ {lines[k] : k \in 1..Len(lines)} = {IdText(kind, x) : x \in ids}
             /\ \A j, k \in 1..Len(lines) :
                   j < k => IdLess(kind, lines[j], lines[k])

\* C30: load after save(S) returns exactly S, for the empty S too; a
\* missing, an empty and a blank state file load as the empty set; save
\* leaves nothing of the old file: the file is the sorted members of S,
\* one per line.
C30_RoundTrip ==
    /\ st_pc = "reloaded" => st_loaded = st_ids
    /\ (st_pc = "loaded" /\ (~st_file.exists \/ strip(st_file.text) = <<>>)) =>
          st_loaded = {}
    /\ st_pc \in {"saved", "reloaded"} =>
          /\ st_file.exists
          /\ OnePerLine(st_kind, st_ids, st_file.text)

\* Three UIDs, one of one digit and two of two, have been saved over the
\* file of another UID and loaded again.
C30_Witness ==
    /\ st_pc = "reloaded"
    /\ st_kind = "uids"
    /\ st_ids = {2, 10, 11}
    /\ st_loaded = {2, 10, 11}
    /\ st_file.text = <<"2", LF, "1", "0", LF, "1", "1">>

\* ---------------------------------------------------------------- C31
\* The identifiers in the persisted SyncState of local folder d that a
\* sync run has put there: all but those taken over from the legacy state.
RecordedByRuns(d) == Persisted(d) \ LegacyIds(d)

\* C31: write before record: in every state, those a run has been stopped
\* in included, every identifier a run has added to the persisted SyncState
\* of a folder has its message file in that folder.
C31_WriteBeforeRecord ==
    \A d \in Dirs : RecordedByRuns(d) \subseteq FileIds(d)

\* A run has been stopped after a save: the SyncState holds identifiers,
\* and there are files written after the save that it does not hold yet.
C31_Witness ==
    /\ ad_pc = "done" /\ ad_result = Killed
    /\ \E d \in Dirs : RecordedByRuns(d) # {} /\ Unsaved(d) # {}

\* ---------------------------------------------------------------- C32
\* The accepted triggers that hold account a: the requests between their
\* check and the start of their thread, and the _run_sync threads that have
\* a as the target they are at or as a target still to come.
ReqClaims(a) ==
    {r \in Req : /\ rpc[r] \in {"set_syncing", "set_error", "spawn"}
                 /\ a \in SeqSet(Targets(rname[r]))}
WrkClaims(a) ==
    {w \in Wrk : /\ wpc[w] # "free"
                 /\ \E k \in wi[w]..Len(wtargets[w]) : wtargets[w][k] = a}
Claims(a) == Cardinality(ReqClaims(a)) + Cardinality(WrkClaims(a))

\* C32: with triggers alone the check of the flags and their setting are
\* one atomic step: an account is held by at most one accepted trigger at
\* a time, so at most one trigger-started invocation of it is in flight;
\* and a trigger is rejected only for an account that an accepted trigger
\* holds, so of the triggers that compete for an Idle account exactly one
\* is accepted.
C32_AtomicCheckAndSet ==
    /\ \A a \in Accounts :
          /\ Claims(a) <= 1
          /\ Cardinality(TriggeredInFlight(a)) <= 1
    /\ \A r \in Req :
          Rejecting(r) => /\ FoundSyncing(r) # {}
                          /\ \A a \in FoundSyncing(r) : Claims(a) = 1

\* Two triggers for beta at the same time: one has found beta Idle, has set
\* the flag and is about to start its thread, the other has found the flag
\* and is being rejected.
C32_Witness ==
    \E r, q \in Req :
        /\ rname[r] = "beta" /\ rpc[r] = "spawn"
        /\ rname[q] = "beta" /\ Rejecting(q)
        /\ rresp[q].code = 409

\* ---- C33 ---------------------------------------------------------------
\* The answer of a trigger is a rejection: unknown-account or already-running.
Rejected(r) == rresp[r].code \in {404, 409}

\* The step of request r that decides on, or carries out, a rejection.
RejectionStep(r) == rpc'[r] # rpc[r] /\ rresp'[r].code \in {404, 409}

\* What a step leaves alone when it changes no account's status and starts
\* no adapter invocation.
NothingChanges ==
    /\ status' = status
    /\ wpc' = wpc
    /\ wtargets' = wtargets
    /\ wi' = wi
    /\ owed' = owed

\* C33: a rejected trigger changes nothing.  No step on the path of a trigger
\* that is answered 404 or 409 changes the status of any account or starts a
\* thread, and a rejected trigger has written no flag and started no thread:
\* while it still holds the lock before its return 409, the status of every
\* account, the Idle targets of a sync-all included, is the one published
\* at the last release of the lock.
C33_RejectedChangesNothing ==
    [][\A r \in Req :
          /\ RejectionStep(r) => NothingChanges
          /\ Rejected(r)' =>
                /\ ~rhist'[r].wrote
                /\ rhist'[r].started = 0
                /\ Rejecting(r)' =>
                      /\ status' = committed'
                      /\ \A n \in FoundIdle(r)' : ~status'[n].syncing]_vars

\* Both rejections have been returned: a sync-all answered 409 whose Idle
\* target is still Idle with no thread carrying it, and an unknown name
\* answered 404.
C33_Witness ==
    \E r, q \in Req :
       /\ rpc[r] = "done" /\ rname[r] = None /\ rresp[r].code = 409
       /\ FoundIdle(r) # {}
       /\ \A n \in FoundIdle(r) : ~status[n].syncing /\ Claims(n) = 0
       /\ rpc[q] = "done" /\ rresp[q].code = 404

\* ---- C34 ---------------------------------------------------------------
\* The status map as every thread that takes the lock finds it: the map
\* published at the last release of the lock, which is the map itself
\* whenever the lock is free.
SyncingHasNoError(m) == \A a \in Accounts : m[a].syncing => m[a].last_error = None

\* From one published status map to the next: a flag that goes up comes
\* with a cleared error, and an error is recorded only together with a flag
\* that goes down.
ErrorFollowsFlag ==
    \A a \in Accounts :
       /\ (~committed[a].syncing /\ committed'[a].syncing)
             => committed'[a].last_error = None
       /\ (committed'[a].last_error # committed[a].last_error
              /\ committed'[a].last_error # None)
             => committed[a].syncing /\ ~committed'[a].syncing

\* C34: in every state of the status map that a thread can observe, an
\* account whose syncing flag is true has no last error; the with block that
\* accepts a trigger publishes the flag and the cleared error together, and
\* an error is published only by the with block that clears the flag.
C34_SyncingHasNoError ==
    /\ [](SyncingHasNoError(committed) /\ (lock = Free => status = committed))
    /\ [][ErrorFollowsFlag]_vars

\* A trigger is being accepted for an account whose last run failed: inside
\* the with block the flag is already set and the old error not yet cleared,
\* while the published map still shows the account Idle with its error.
C34_Witness ==
    \E r \in Req :
       /\ rpc[r] = "set_error"
       /\ lock = ReqTid(r)
       /\ status[Targets(rname[r])[ri[r]]].syncing
       /\ status[Targets(rname[r])[ri[r]]].last_error # None
       /\ ~committed[Targets(rname[r])[ri[r]]].syncing

\* ---- C35 ---------------------------------------------------------------
\* An IMAP run over the configured folder INBOX has ended after the
\* connection was made, and the server's INBOX holds UIDs that the SyncState
\* the run began with does not hold: the run had UIDs to request.
ImapState0 == load_synced(Migrated(ad_state0["inbox"]))
ImapRunWithNewUids ==
    /\ ad_type = "IMAP" /\ "INBOX" \in SeqSet(ad_folders)
    /\ ad_pc = "done"
    /\ ad_result.err # "LoginError"
    /\ SeqSet(remote["INBOX"]) \ ImapState0 # {}

====
